---- MODULE Spec2Model ----
(***************************************************************************)
(* VaultBurn core: secure_delete, encrypt_file and decrypt_file of         *)
(* src/file_operations.py, run against a small filesystem that keeps, for  *)
(* every path, the content the processes see (data) and the content that   *)
(* is on stable storage (disk).                                            *)
(*                                                                         *)
(* File contents are sequences of cells (natural numbers).  A path is a    *)
(* sequence of tokens: a base name followed by the suffixes appended to    *)
(* it.  Every call occupies one slot p; its position in the code is pc[p]. *)
(***************************************************************************)
EXTENDS Integers, Sequences, FiniteSets, TLC

\* ---------------------------------------------------------------- bounds
MaxSize == 2
MaxPasses == 2
MaxPathLen == 2

\* two call slots: a call and the call issued before it
Procs == {1, 2}

\* ---------------------------------------------------------------- paths
ENC == ".encrypted"
DEC == ".decrypted"
BaseNames == {"a"}
Suffixes == {ENC, DEC}

RECURSIVE PathsOfLen(_)
PathsOfLen(n) ==
  IF n = 1 THEN {<<b>> : b \in BaseNames}
  ELSE {Append(q, s) : q \in PathsOfLen(n - 1), s \in Suffixes}

Paths == UNION {PathsOfLen(n) : n \in 1..MaxPathLen}
NoPath == <<>>

\* ---------------------------------------------------------------- contents
NoFile == <<-1>>

\* the content of a file of n cells before any call has touched it
OrigData(n) == [i \in 1..n |-> i % 2]

Exists(fs, path) == fs[path] # NoFile

Prefix(s, j) == SubSeq(s, 1, j)

\* bytes written at offset 0 of a file: they replace the first Len(b) cells
WriteAt0(content, b) ==
  b \o (IF Len(content) > Len(b) THEN SubSeq(content, Len(b) + 1, Len(content)) ELSE <<>>)

\* os.urandom(n) as called by pass k of call p: n cells that no other draw yields
RandBase == 100
RandStride == 10
RandTag(p, k) == RandBase + p * RandStride + k
Urandom(n, p, k) == [i \in 1..n |-> RandTag(p, k)]
IsRandom(c) == c >= RandBase

\* io.BufferedWriter: a write no longer than the buffer stays in the buffer
BufferSize == 1

\* ---------------------------------------------------------------- results
NoRet == <<>>
RetTrue == <<"True">>
RetFalse == <<"False">>
RetNone == <<"None">>

\* ---------------------------------------------------------------- exceptions
\* Python's class hierarchy, as far as the except clauses tell classes apart
Parent(e) ==
  CASE e = "PermissionError" -> "OSError"
    [] e = "FileNotFoundError" -> "OSError"
    [] e = "OSError" -> "Exception"
    [] e = "MemoryError" -> "Exception"
    [] e = "ValueError" -> "Exception"
    [] e = "InvalidToken" -> "Exception"
    [] e = "Exception" -> "BaseException"
    [] OTHER -> "object"

RECURSIVE IsInstance(_, _)
IsInstance(e, cls) ==
  IF e = cls THEN TRUE
  ELSE IF e \in {"BaseException", "object"} THEN FALSE
  ELSE IsInstance(Parent(e), cls)

\* what each underlying step can raise
OsErrors == {"PermissionError", "OSError"}
Raises(step) ==
  CASE step = "getsize" -> OsErrors
    [] step = "urandom" -> {"MemoryError"}
    [] step = "open" -> OsErrors
    [] step = "read" -> OsErrors \cup {"MemoryError"}
    [] step = "write" -> OsErrors
    [] step = "flush" -> OsErrors
    [] step = "fsync" -> OsErrors
    [] step = "close" -> OsErrors
    [] step = "remove" -> OsErrors
    [] step = "cipher" -> {"ValueError"}
    [] step = "encrypt" -> {"MemoryError"}
    [] step = "decrypt" -> {"InvalidToken", "MemoryError"}
    [] OTHER -> {}

\* secure_delete without its last clause, except Exception
SecureDeleteExcept_NoCatchAll(e) ==
  IF IsInstance(e, "PermissionError") THEN "PermissionError"
  ELSE IF IsInstance(e, "OSError") THEN "OSError"
  ELSE "uncaught"

\* the except clauses of secure_delete, in source order
SecureDeleteExcept(e) ==
  IF IsInstance(e, "PermissionError") THEN "PermissionError"
  ELSE IF IsInstance(e, "OSError") THEN "OSError"
  ELSE IF IsInstance(e, "Exception") THEN "Exception"
  ELSE "uncaught"

\* the except clause shared by encrypt_file and decrypt_file
CryptExcept(e) ==
  IF IsInstance(e, "Exception") THEN "Exception" ELSE "uncaught"

\* ---------------------------------------------------------------- Fernet
\* cryptography.fernet, in cells: version | timestamp | iv | ciphertext | hmac.
\* The ciphertext is the PKCS7-padded plaintext, enciphered cell by cell.
Keys == {1, 2}
BadKey == 0
KeyArgs == Keys \cup {BadKey}

FernetVersion == 128
BlockSize == 2
CtBase == 1000
CtSpan == 4
MacBase == 500
MacKeyStride == 50
MacMod == 47
HeaderLen == 3

RECURSIVE WeightedSum(_)
WeightedSum(s) ==
  IF s = <<>> THEN 0 ELSE Len(s) * s[Len(s)] + WeightedSum(Prefix(s, Len(s) - 1))

PadLen(n) == BlockSize - (n % BlockSize)
Pad(s) == s \o [i \in 1..PadLen(Len(s)) |-> PadLen(Len(s))]
PadOk(s) ==
  /\ Len(s) > 0
  /\ s[Len(s)] \in 1..BlockSize
  /\ s[Len(s)] <= Len(s)
  /\ \A i \in (Len(s) - s[Len(s)] + 1)..Len(s) : s[i] = s[Len(s)]
\* the unpadder always drops one cell
Unpad_DropLast(s) == Prefix(s, Len(s) - 1)

Unpad(s) == Prefix(s, Len(s) - s[Len(s)])

CtCell(k, iv, v) == CtBase + CtSpan * v + ((k + iv) % CtSpan)
PtCell(k, iv, c) == (c - CtBase - ((k + iv) % CtSpan)) \div CtSpan
CtCellOk(k, iv, c) == c >= CtBase /\ (c - CtBase) % CtSpan = (k + iv) % CtSpan

\* a signature that covers version, timestamp and IV only
Hmac_HeaderOnly(k, s) == MacBase + k * MacKeyStride + (WeightedSum(Prefix(s, HeaderLen)) % MacMod)

Hmac(k, s) == MacBase + k * MacKeyStride + (WeightedSum(s) % MacMod)

\* the cells of a token that hold the IV and the signature
IvLen == 1
MacLen == 1

\* Fernet(key).encrypt(data) with initialisation vector iv at time ts
FernetEncrypt(k, s, iv, ts) ==
  LET body == <<FernetVersion, ts, iv>> \o [i \in 1..Len(Pad(s)) |-> CtCell(k, iv, Pad(s)[i])]
  IN Append(body, Hmac(k, body))

\* a token check that accepts the signature of any key
FernetValid_AnyKey(k, t) ==
  \E k2 \in Keys :
    /\ Len(t) >= HeaderLen + 1
    /\ t[1] = FernetVersion
    /\ t[Len(t)] = Hmac(k2, Prefix(t, Len(t) - 1))
    /\ (Len(t) - HeaderLen - 1) % BlockSize = 0
    /\ \A i \in (HeaderLen + 1)..(Len(t) - 1) : CtCellOk(k2, t[3], t[i])
    /\ PadOk([i \in 1..(Len(t) - HeaderLen - 1) |-> PtCell(k2, t[3], t[HeaderLen + i])])

\* Fernet(key).decrypt(token): the plaintext, or InvalidToken
FernetValid(k, t) ==
  /\ Len(t) >= HeaderLen + 1
  /\ t[1] = FernetVersion
  /\ t[Len(t)] = Hmac(k, Prefix(t, Len(t) - 1))
  /\ (Len(t) - HeaderLen - 1) % BlockSize = 0
  /\ \A i \in (HeaderLen + 1)..(Len(t) - 1) : CtCellOk(k, t[3], t[i])
  /\ PadOk([i \in 1..(Len(t) - HeaderLen - 1) |-> PtCell(k, t[3], t[HeaderLen + i])])

FernetDecrypt(k, t) ==
  Unpad([i \in 1..(Len(t) - HeaderLen - 1) |-> PtCell(k, t[3], t[HeaderLen + i])])

\* time.time() and os.urandom(16) inside Fernet.encrypt, for the call in slot p
Clock(p) == p
FreshIv(p) == RandTag(p, 0)

\* ---------------------------------------------------------------- state
VARIABLES
  data,      \* path -> content visible to the processes, or NoFile
  disk,      \* path -> content on stable storage, or NoFile
  pc,        \* slot -> position of the call in the code
  call,      \* slot -> the call's arguments
  loc,       \* slot -> the call's local variables
  ret,       \* slot -> the value the call returned
  outcome,   \* slot -> the branch that ended the call (its log record)
  failedAt,  \* slot -> the step that raised, with the pass it raised in
  events,    \* slot -> the storage operations the call has issued, in order
  pre,       \* slot -> data when the call started
  log,       \* the records handed to the logging module, in order
  gui        \* the encryption tab: its key fields and its last dialog

vars == <<data, disk, pc, call, loc, log, ret, outcome, failedAt, events, pre, log, gui>>

NoCall == [op |-> "none", path |-> NoPath, passes |-> 0, key |-> 0, output_path |-> NoPath]
NoLoc == [file_size |-> 0, pass_num |-> 0, random_data |-> <<>>, buf |-> <<>>,
          file_data |-> <<>>, encrypted_data |-> <<>>, decrypted_data |-> <<>>,
          target |-> NoPath]
NoFail == [step |-> "none", pass |-> 0]

\* the tab before anything was selected or typed; lines 446-449, 543-544
NoGui == [selected_encrypt_file |-> <<>>, do_encrypt_btn |-> FALSE,
          selected_decrypt_file |-> <<>>, do_decrypt_btn |-> FALSE,
          current_key |-> <<>>, key_display |-> <<>>, key_input |-> <<>>,
          key_str |-> <<>>, key |-> <<>>, pending |-> "none", dialog |-> "none",
          \* the deletion list (one row per path; rows are numbered from 1), the
          \* rows selected in it, the status label, and a delete handler's locals
          table |-> <<>>, selected |-> {}, status_label |-> [count |-> 0, total_size |-> 0],
          handler |-> "none", rows |-> <<>>, count |-> 0, answer |-> "none",
          \* history of a batch: the table, selection and files as the handler
          \* found them, and the calls it made with what they returned
          before |-> <<>>, chosen |-> {}, files_before |-> <<>>, batch |-> <<>>,
          \* the command line: args.files, args.passes, args.recursive, the
          \* position in args.files, the files of a walk still to come, whether
          \* the folder is still there, and what was printed
          files |-> <<>>, passes |-> 0, recursive |-> FALSE, argi |-> 0,
          \* and what each argument was when its turn came
          walk |-> <<>>, folder |-> TRUE, stdout |-> <<>>, seen |-> <<>>]

Ev(kind, n, tag, ok) == [ev |-> kind, n |-> n, tag |-> tag, ok |-> ok]

InitFiles == {OrigData(n) : n \in 0..MaxSize}

Init ==
  /\ \E c \in InitFiles \cup {NoFile} :
       data = [q \in Paths |-> IF q = <<"a">> THEN c ELSE NoFile]
  /\ disk = data
  /\ pc = [p \in Procs |-> "idle"]
  /\ call = [p \in Procs |-> NoCall]
  /\ loc = [p \in Procs |-> NoLoc]
  /\ ret = [p \in Procs |-> NoRet]
  /\ outcome = [p \in Procs |-> "none"]
  /\ failedAt = [p \in Procs |-> NoFail]
  /\ events = [p \in Procs |-> <<>>]
  /\ pre = [p \in Procs |-> [q \in Paths |-> NoFile]]
  /\ log = <<>>
  /\ gui = NoGui

\* ---------------------------------------------------------------- helpers
Resting(p) == pc[p] \in {"idle", "done", "raised", "crashed"}

\* calls are issued one at a time, slot after slot
MayStart(p) ==
  /\ pc[p] = "idle"
  /\ \A q \in Procs : Resting(q)
  /\ \A q \in Procs : q < p => pc[q] # "idle"

Goto(p, label) == pc' = [pc EXCEPT ![p] = label]

Log(p, e) == events' = [events EXCEPT ![p] = Append(@, e)]

\* the message also quotes the key the caller passed
ExcDetail_QuotesKey(e) ==
  IF e \in {"ValueError", "InvalidToken"} THEN gui.key ELSE <<>>

\* str(e) as the handlers interpolate it, less the file name: the errno of an
\* OSError (EACCES, ENOENT, EIO); the texts of the library carry no argument
ExcDetail(e) ==
  CASE e = "PermissionError" -> <<13>>
    [] e = "FileNotFoundError" -> <<2>>
    [] e = "OSError" -> <<5>>
    [] OTHER -> <<>>

LogRecord(level, msg, path, e) ==
  [level |-> level, msg |-> msg, path |-> path, exc |-> e, detail |-> ExcDetail(e)]

\* the logging call of the branch that ends a call of op
BranchRecord(op, branch, path, e) ==
  CASE op = "secure_delete" /\ branch = "NotFound" ->
         LogRecord("WARNING", "File not found", path, e)
    [] op = "secure_delete" /\ branch = "ok" ->
         LogRecord("INFO", "Successfully deleted", path, e)
    [] op = "secure_delete" /\ branch = "PermissionError" ->
         LogRecord("ERROR", "Permission denied deleting", path, e)
    [] op = "secure_delete" /\ branch = "OSError" ->
         LogRecord("ERROR", "OS error deleting", path, e)
    [] op = "secure_delete" /\ branch = "Exception" ->
         LogRecord("ERROR", "Unexpected error deleting", path, e)
    [] op = "encrypt_file" /\ branch = "ok" ->
         LogRecord("INFO", "Successfully encrypted", path, e)
    [] op = "encrypt_file" /\ branch = "Exception" ->
         LogRecord("ERROR", "Error encrypting", path, e)
    [] op = "decrypt_file" /\ branch = "ok" ->
         LogRecord("INFO", "Successfully decrypted", path, e)
    [] OTHER ->
         LogRecord("ERROR", "Error decrypting", path, e)

\* the call ends: a logging call and a return statement, or an escaping exception
FinishWith(p, value, branch, e) ==
  /\ pc' = [pc EXCEPT ![p] = IF branch = "uncaught" THEN "raised" ELSE "done"]
  /\ ret' = [ret EXCEPT ![p] = IF branch = "uncaught" THEN NoRet ELSE value]
  /\ outcome' = [outcome EXCEPT ![p] = branch]
  /\ log' = IF branch = "uncaught" THEN log
            ELSE Append(log, BranchRecord(call[p].op, branch, call[p].path, e))

Finish(p, value, branch) == FinishWith(p, value, branch, "none")

\* ---------------------------------------------------------------- secure_delete
PassesArgs == 0..MaxPasses

CallSecureDelete(p, path, passes) ==
  /\ MayStart(p)
  /\ call' = [call EXCEPT ![p] = [NoCall EXCEPT !.op = "secure_delete",
                                               !.path = path, !.passes = passes]]
  /\ pre' = [pre EXCEPT ![p] = data]
  /\ Goto(p, "sd_exists")
  /\ UNCHANGED <<data, disk, loc, log, ret, outcome, failedAt, events>>

\* a step of secure_delete raises e: the matching except clause returns False
SdRaise(p, step, e) ==
  /\ FinishWith(p, RetFalse, SecureDeleteExcept(e), e)
  /\ failedAt' = [failedAt EXCEPT ![p] = [step |-> step, pass |-> loc[p].pass_num]]

\* secure_delete without the existence check
SdExists_NoCheck(p) ==
  /\ pc[p] = "sd_exists"
  /\ Goto(p, "sd_getsize")
  /\ UNCHANGED <<data, disk, call, loc, log, ret, outcome, failedAt, events, pre, gui>>

\* line 13-15: os.path.exists never raises
SdExists(p) ==
  /\ pc[p] = "sd_exists"
  /\ IF Exists(data, call[p].path)
       THEN Goto(p, "sd_getsize") /\ UNCHANGED <<log, ret, outcome>>
       ELSE Finish(p, RetFalse, "NotFound")
  /\ UNCHANGED <<data, disk, call, loc, failedAt, events, pre, gui>>

\* line 17-20
SdGetsize(p) ==
  /\ pc[p] = "sd_getsize"
  /\ \/ /\ Exists(data, call[p].path)
        /\ loc' = [loc EXCEPT ![p].file_size = Len(data[call[p].path])]
        /\ log' = Append(log, LogRecord("INFO", "Starting secure deletion", call[p].path, "none"))
        /\ Goto(p, "sd_loop")
        /\ UNCHANGED <<ret, outcome, failedAt>>
     \/ /\ \E e \in (IF Exists(data, call[p].path) THEN Raises("getsize")
                     ELSE {"FileNotFoundError"}) : SdRaise(p, "getsize", e)
        /\ UNCHANGED loc
  /\ UNCHANGED <<data, disk, call, events, pre, gui>>

\* the loop as range(1, passes)
SdLoop_OffByOne(p) ==
  /\ pc[p] = "sd_loop"
  /\ IF loc[p].pass_num < call[p].passes - 1
       THEN /\ loc' = [loc EXCEPT ![p].pass_num = @ + 1]
            /\ Goto(p, "sd_urandom")
       ELSE /\ Goto(p, "sd_remove")
            /\ UNCHANGED loc
  /\ UNCHANGED <<data, disk, call, log, ret, outcome, failedAt, events, pre, gui>>

\* the loop skipped for an empty file
SdLoop_SkipEmpty(p) ==
  /\ pc[p] = "sd_loop"
  /\ IF loc[p].pass_num < call[p].passes /\ loc[p].file_size > 0
       THEN /\ loc' = [loc EXCEPT ![p].pass_num = @ + 1]
            /\ Goto(p, "sd_urandom")
       ELSE /\ Goto(p, "sd_remove")
            /\ UNCHANGED loc
  /\ UNCHANGED <<data, disk, call, log, ret, outcome, failedAt, events, pre, gui>>

\* line 23: for pass_num in range(1, passes + 1)
SdLoop(p) ==
  /\ pc[p] = "sd_loop"
  /\ IF loc[p].pass_num < call[p].passes
       THEN /\ loc' = [loc EXCEPT ![p].pass_num = @ + 1]
            /\ Goto(p, "sd_urandom")
       ELSE /\ Goto(p, "sd_remove")
            /\ UNCHANGED loc
  /\ UNCHANGED <<data, disk, call, log, ret, outcome, failedAt, events, pre, gui>>

\* line 24
SdUrandom(p) ==
  /\ pc[p] = "sd_urandom"
  /\ \/ /\ loc' = [loc EXCEPT ![p].random_data =
                       Urandom(loc[p].file_size, p, loc[p].pass_num)]
        /\ Goto(p, "sd_open")
        /\ UNCHANGED <<log, ret, outcome, failedAt>>
     \/ /\ \E e \in Raises("urandom") : SdRaise(p, "urandom", e)
        /\ UNCHANGED loc
  /\ UNCHANGED <<data, disk, call, events, pre, gui>>

\* line 25: open(file_path, "wb") creates the file or cuts it to length 0
SdOpen(p) ==
  /\ pc[p] = "sd_open"
  /\ \/ /\ data' = [data EXCEPT ![call[p].path] = <<>>]
        /\ loc' = [loc EXCEPT ![p].buf = <<>>]
        /\ Goto(p, "sd_write")
        /\ UNCHANGED <<log, ret, outcome, failedAt>>
     \/ /\ \E e \in Raises("open") : SdRaise(p, "open", e)
        /\ UNCHANGED <<data, loc>>
  /\ UNCHANGED <<disk, call, events, pre, gui>>

\* line 26: f.write(random_data)
SdWrite(p) ==
  /\ pc[p] = "sd_write"
  /\ LET b == loc[p].random_data
         path == call[p].path
         tag == RandTag(p, loc[p].pass_num)
     IN \/ /\ IF Len(b) <= BufferSize
                THEN /\ loc' = [loc EXCEPT ![p].buf = b]
                     /\ UNCHANGED data
                ELSE /\ data' = [data EXCEPT ![path] = WriteAt0(@, b)]
                     /\ UNCHANGED loc
           /\ Log(p, Ev("write", Len(b), tag, TRUE))
           /\ Goto(p, "sd_flush")
           /\ UNCHANGED <<log, ret, outcome, failedAt>>
        \/ /\ Len(b) > BufferSize
           /\ \E j \in 0..(Len(b) - 1) :
                data' = [data EXCEPT ![path] = WriteAt0(@, Prefix(b, j))]
           /\ Log(p, Ev("write", Len(b), tag, FALSE))
           /\ \E e \in Raises("write") : SdRaise(p, "write", e)
           /\ UNCHANGED loc
  /\ UNCHANGED <<disk, call, pre, gui>>

\* a failing flush swallowed: the pass goes on
SdFlush_IgnoreError(p) ==
  /\ pc[p] = "sd_flush"
  /\ LET b == loc[p].buf
         path == call[p].path
     IN \/ /\ data' = [data EXCEPT ![path] = WriteAt0(@, b)]
           /\ Log(p, Ev("flush", 0, 0, TRUE))
        \/ /\ Len(b) > 0
           /\ \E j \in 0..(Len(b) - 1) :
                data' = [data EXCEPT ![path] = WriteAt0(@, Prefix(b, j))]
           /\ Log(p, Ev("flush", 0, 0, FALSE))
  /\ loc' = [loc EXCEPT ![p].buf = <<>>]
  /\ Goto(p, "sd_fsync")
  /\ UNCHANGED <<disk, call, pre, log, ret, outcome, failedAt, gui>>

\* line 27: f.flush()
SdFlush(p) ==
  /\ pc[p] = "sd_flush"
  /\ LET b == loc[p].buf
         path == call[p].path
     IN \/ /\ data' = [data EXCEPT ![path] = WriteAt0(@, b)]
           /\ loc' = [loc EXCEPT ![p].buf = <<>>]
           /\ Log(p, Ev("flush", 0, 0, TRUE))
           /\ Goto(p, "sd_fsync")
           /\ UNCHANGED <<log, ret, outcome, failedAt>>
        \/ /\ Len(b) > 0
           /\ \E j \in 0..(Len(b) - 1) :
                data' = [data EXCEPT ![path] = WriteAt0(@, Prefix(b, j))]
           /\ Log(p, Ev("flush", 0, 0, FALSE))
           /\ \E e \in Raises("flush") : SdRaise(p, "flush", e)
           /\ UNCHANGED loc
  /\ UNCHANGED <<disk, call, pre, gui>>

\* the pass without os.fsync: nothing is forced to stable storage
SdFsync_NoSync(p) ==
  /\ pc[p] = "sd_fsync"
  /\ \/ /\ Log(p, Ev("fsync", 0, 0, TRUE))
        /\ Goto(p, "sd_close")
        /\ UNCHANGED <<log, ret, outcome, failedAt>>
     \/ /\ Log(p, Ev("fsync", 0, 0, FALSE))
        /\ \E e \in Raises("fsync") : SdRaise(p, "fsync", e)
  /\ UNCHANGED <<data, disk, call, loc, pre, gui>>

\* line 28: os.fsync(f.fileno())
SdFsync(p) ==
  /\ pc[p] = "sd_fsync"
  /\ \/ /\ disk' = [disk EXCEPT ![call[p].path] = data[call[p].path]]
        /\ Log(p, Ev("fsync", 0, 0, TRUE))
        /\ Goto(p, "sd_close")
        /\ UNCHANGED <<log, ret, outcome, failedAt>>
     \/ /\ Log(p, Ev("fsync", 0, 0, FALSE))
        /\ \E e \in Raises("fsync") : SdRaise(p, "fsync", e)
        /\ UNCHANGED disk
  /\ UNCHANGED <<data, call, loc, pre, gui>>

\* the loop left after the first pass
SdClose_Break(p) ==
  /\ pc[p] = "sd_close"
  /\ \/ /\ Goto(p, "sd_remove")
        /\ UNCHANGED <<log, ret, outcome, failedAt>>
     \/ \E e \in Raises("close") : SdRaise(p, "close", e)
  /\ UNCHANGED <<data, disk, call, loc, events, pre, gui>>

\* line 25, leaving the with block: f.close(); line 29
SdClose(p) ==
  /\ pc[p] = "sd_close"
  /\ \/ /\ Goto(p, "sd_loop")
        /\ UNCHANGED <<log, ret, outcome, failedAt>>
     \/ \E e \in Raises("close") : SdRaise(p, "close", e)
  /\ UNCHANGED <<data, disk, call, loc, events, pre, gui>>

\* the unlink also takes the files named after the path
SdRemove_Sweep(p) ==
  /\ pc[p] = "sd_remove"
  /\ \/ /\ Exists(data, call[p].path)
        /\ data' = [r \in Paths |->
                      IF Len(r) >= Len(call[p].path)
                           /\ Prefix(r, Len(call[p].path)) = call[p].path
                        THEN NoFile ELSE data[r]]
        /\ Log(p, Ev("remove", 0, 0, TRUE))
        /\ Finish(p, RetTrue, "ok")
        /\ UNCHANGED failedAt
     \/ /\ Log(p, Ev("remove", 0, 0, FALSE))
        /\ \E e \in (IF Exists(data, call[p].path) THEN Raises("remove")
                     ELSE {"FileNotFoundError"}) : SdRaise(p, "remove", e)
        /\ UNCHANGED data
  /\ UNCHANGED <<disk, call, loc, pre, gui>>

\* line 31-33
SdRemove(p) ==
  /\ pc[p] = "sd_remove"
  /\ \/ /\ Exists(data, call[p].path)
        /\ data' = [data EXCEPT ![call[p].path] = NoFile]
        /\ Log(p, Ev("remove", 0, 0, TRUE))
        /\ Finish(p, RetTrue, "ok")
        /\ UNCHANGED failedAt
     \/ /\ Log(p, Ev("remove", 0, 0, FALSE))
        /\ \E e \in (IF Exists(data, call[p].path) THEN Raises("remove")
                     ELSE {"FileNotFoundError"}) : SdRaise(p, "remove", e)
        /\ UNCHANGED data
  /\ UNCHANGED <<disk, call, loc, pre, gui>>

SecureDeleteStep(p) ==
  \/ SdExists(p) \/ SdGetsize(p) \/ SdLoop(p) \/ SdUrandom(p) \/ SdOpen(p)
  \/ SdWrite(p) \/ SdFlush(p) \/ SdFsync(p) \/ SdClose(p) \/ SdRemove(p)

StartSecureDelete ==
  /\ \E p \in Procs, path \in Paths, passes \in PassesArgs : CallSecureDelete(p, path, passes)
  /\ UNCHANGED gui

\* ---------------------------------------------------------------- encrypt_file
\* the envelope written over the source
EncryptedPath_InPlace(path) == path

\* line 63: encrypted_path = file_path + '.encrypted'
EncryptedPath(path) == Append(path, ENC)

CallEncryptFile(p, path, key) ==
  /\ MayStart(p)
  /\ EncryptedPath(path) \in Paths
  /\ call' = [call EXCEPT ![p] = [NoCall EXCEPT !.op = "encrypt_file",
                                               !.path = path, !.key = key]]
  /\ pre' = [pre EXCEPT ![p] = data]
  /\ Goto(p, "en_read")
  /\ UNCHANGED <<data, disk, loc, log, ret, outcome, failedAt, events>>

\* a step of encrypt_file or decrypt_file raises e: line 70-72, 100-102
CryptRaise(p, step, e) ==
  /\ FinishWith(p, RetNone, CryptExcept(e), e)
  /\ failedAt' = [failedAt EXCEPT ![p] = [step |-> step, pass |-> 0]]

\* line 55-56: open(file_path, 'rb') and f.read()
EnRead(p) ==
  /\ pc[p] = "en_read"
  /\ \/ /\ Exists(data, call[p].path)
        /\ loc' = [loc EXCEPT ![p].file_data = data[call[p].path]]
        /\ Goto(p, "en_cipher")
        /\ UNCHANGED <<log, ret, outcome, failedAt>>
     \/ /\ \E e \in (IF Exists(data, call[p].path) THEN Raises("read")
                     ELSE {"FileNotFoundError"}) : CryptRaise(p, "read", e)
        /\ UNCHANGED loc
  /\ UNCHANGED <<data, disk, call, events, pre, gui>>

\* line 59: Fernet(key)
EnCipher(p) ==
  /\ pc[p] = "en_cipher"
  /\ IF call[p].key \in Keys
       THEN Goto(p, "en_encrypt") /\ UNCHANGED <<log, ret, outcome, failedAt>>
       ELSE \E e \in Raises("cipher") : CryptRaise(p, "cipher", e)
  /\ UNCHANGED <<data, disk, call, loc, events, pre, gui>>

\* line 60: fernet.encrypt(file_data)
EnEncrypt(p) ==
  /\ pc[p] = "en_encrypt"
  /\ \/ /\ loc' = [loc EXCEPT ![p].encrypted_data =
                       FernetEncrypt(call[p].key, loc[p].file_data, FreshIv(p), Clock(p))]
        /\ Goto(p, "en_open")
        /\ UNCHANGED <<log, ret, outcome, failedAt>>
     \/ /\ \E e \in Raises("encrypt") : CryptRaise(p, "encrypt", e)
        /\ UNCHANGED loc
  /\ UNCHANGED <<data, disk, call, events, pre, gui>>

\* line 63-64: open(encrypted_path, 'wb')
EnOpen(p) ==
  /\ pc[p] = "en_open"
  /\ \/ /\ data' = [data EXCEPT ![EncryptedPath(call[p].path)] = <<>>]
        /\ loc' = [loc EXCEPT ![p].target = EncryptedPath(call[p].path), ![p].buf = <<>>]
        /\ Goto(p, "en_write")
        /\ UNCHANGED <<log, ret, outcome, failedAt>>
     \/ /\ \E e \in Raises("open") : CryptRaise(p, "open", e)
        /\ UNCHANGED <<data, loc>>
  /\ UNCHANGED <<disk, call, events, pre, gui>>

\* f.write(b) on the file opened at loc[p].target; then the code is at label next
CryptWrite(p, b, next) ==
  \/ /\ IF Len(b) <= BufferSize
          THEN /\ loc' = [loc EXCEPT ![p].buf = b]
               /\ UNCHANGED data
          ELSE /\ data' = [data EXCEPT ![loc[p].target] = WriteAt0(@, b)]
               /\ UNCHANGED loc
     /\ Log(p, Ev("write", Len(b), 0, TRUE))
     /\ Goto(p, next)
     /\ UNCHANGED <<log, ret, outcome, failedAt>>
  \/ /\ Len(b) > BufferSize
     /\ \E j \in 0..(Len(b) - 1) :
          data' = [data EXCEPT ![loc[p].target] = WriteAt0(@, Prefix(b, j))]
     /\ Log(p, Ev("write", Len(b), 0, FALSE))
     /\ \E e \in Raises("write") : CryptRaise(p, "write", e)
     /\ UNCHANGED loc

\* leaving the with block: f.close() writes the buffer out; then return value
CryptClose(p, value) ==
  LET b == loc[p].buf
  IN \/ /\ data' = [data EXCEPT ![loc[p].target] = WriteAt0(@, b)]
        /\ loc' = [loc EXCEPT ![p].buf = <<>>]
        /\ Finish(p, value, "ok")
        /\ UNCHANGED failedAt
     \/ /\ \E j \in 0..(IF Len(b) > 0 THEN Len(b) - 1 ELSE 0) :
             data' = [data EXCEPT ![loc[p].target] = WriteAt0(@, Prefix(b, j))]
        /\ \E e \in Raises("close") : CryptRaise(p, "close", e)
        /\ UNCHANGED loc

\* the bytes read are written in place of the token
EnWrite_Plain(p) ==
  /\ pc[p] = "en_write"
  /\ CryptWrite(p, loc[p].file_data, "en_close")
  /\ UNCHANGED <<disk, call, pre, gui>>

\* line 65
EnWrite(p) ==
  /\ pc[p] = "en_write"
  /\ CryptWrite(p, loc[p].encrypted_data, "en_close")
  /\ UNCHANGED <<disk, call, pre, gui>>

\* line 64, leaving the with block; line 67-68
EnClose(p) ==
  /\ pc[p] = "en_close"
  /\ CryptClose(p, loc[p].target)
  /\ UNCHANGED <<disk, call, events, pre, gui>>

EncryptFileStep(p) ==
  \/ EnRead(p) \/ EnCipher(p) \/ EnEncrypt(p) \/ EnOpen(p) \/ EnWrite(p) \/ EnClose(p)

\* ---------------------------------------------------------------- decrypt_file
\* line 88: encrypted_path.endswith('.encrypted')
EndsWithEnc(path) == Len(path) >= 2 /\ path[Len(path)] = ENC

\* the output_path argument is not looked at
OutputPath_IgnoreArg(encrypted_path, output_path) ==
  IF EndsWithEnc(encrypted_path) THEN Prefix(encrypted_path, Len(encrypted_path) - 1)
  ELSE Append(encrypted_path, DEC)

\* line 87-91
OutputPath(encrypted_path, output_path) ==
  IF output_path # NoPath THEN output_path
  ELSE IF EndsWithEnc(encrypted_path) THEN Prefix(encrypted_path, Len(encrypted_path) - 1)
  ELSE Append(encrypted_path, DEC)

CallDecryptFile(p, path, key, output_path) ==
  /\ MayStart(p)
  /\ OutputPath(path, output_path) \in Paths
  /\ call' = [call EXCEPT ![p] = [NoCall EXCEPT !.op = "decrypt_file", !.path = path,
                                               !.key = key, !.output_path = output_path]]
  /\ pre' = [pre EXCEPT ![p] = data]
  /\ Goto(p, "de_read")
  /\ UNCHANGED <<data, disk, loc, log, ret, outcome, failedAt, events>>

\* line 79-80
DeRead(p) ==
  /\ pc[p] = "de_read"
  /\ \/ /\ Exists(data, call[p].path)
        /\ loc' = [loc EXCEPT ![p].encrypted_data = data[call[p].path]]
        /\ Goto(p, "de_cipher")
        /\ UNCHANGED <<log, ret, outcome, failedAt>>
     \/ /\ \E e \in (IF Exists(data, call[p].path) THEN Raises("read")
                     ELSE {"FileNotFoundError"}) : CryptRaise(p, "read", e)
        /\ UNCHANGED loc
  /\ UNCHANGED <<data, disk, call, events, pre, gui>>

\* line 83
DeCipher(p) ==
  /\ pc[p] = "de_cipher"
  /\ IF call[p].key \in Keys
       THEN Goto(p, "de_decrypt") /\ UNCHANGED <<log, ret, outcome, failedAt>>
       ELSE \E e \in Raises("cipher") : CryptRaise(p, "cipher", e)
  /\ UNCHANGED <<data, disk, call, loc, events, pre, gui>>

\* the output opened before the token is checked
DeDecrypt_OpenFirst(p) ==
  /\ pc[p] = "de_decrypt"
  /\ \/ /\ FernetValid(call[p].key, loc[p].encrypted_data)
        /\ loc' = [loc EXCEPT ![p].decrypted_data =
                       FernetDecrypt(call[p].key, loc[p].encrypted_data)]
        /\ Goto(p, "de_open")
        /\ UNCHANGED <<data, log, ret, outcome, failedAt>>
     \/ /\ ~FernetValid(call[p].key, loc[p].encrypted_data)
        /\ data' = [data EXCEPT ![OutputPath(call[p].path, call[p].output_path)] = <<>>]
        /\ CryptRaise(p, "decrypt", "InvalidToken")
        /\ UNCHANGED loc
  /\ UNCHANGED <<disk, call, events, pre, gui>>

\* line 84: fernet.decrypt(encrypted_data)
DeDecrypt(p) ==
  /\ pc[p] = "de_decrypt"
  /\ \/ /\ FernetValid(call[p].key, loc[p].encrypted_data)
        /\ loc' = [loc EXCEPT ![p].decrypted_data =
                       FernetDecrypt(call[p].key, loc[p].encrypted_data)]
        /\ Goto(p, "de_open")
        /\ UNCHANGED <<log, ret, outcome, failedAt>>
     \/ /\ \E e \in (IF FernetValid(call[p].key, loc[p].encrypted_data)
                     THEN Raises("decrypt") \ {"InvalidToken"}
                     ELSE {"InvalidToken"}) : CryptRaise(p, "decrypt", e)
        /\ UNCHANGED loc
  /\ UNCHANGED <<data, disk, call, events, pre, gui>>

\* line 86-94: choose the output path and open(output_path, 'wb')
DeOpen(p) ==
  /\ pc[p] = "de_open"
  /\ LET out == OutputPath(call[p].path, call[p].output_path)
     IN \/ /\ data' = [data EXCEPT ![out] = <<>>]
           /\ loc' = [loc EXCEPT ![p].target = out, ![p].buf = <<>>]
           /\ Goto(p, "de_write")
           /\ UNCHANGED <<log, ret, outcome, failedAt>>
        \/ /\ \E e \in Raises("open") : CryptRaise(p, "open", e)
           /\ UNCHANGED <<data, loc>>
  /\ UNCHANGED <<disk, call, events, pre, gui>>

\* line 95
DeWrite(p) ==
  /\ pc[p] = "de_write"
  /\ CryptWrite(p, loc[p].decrypted_data, "de_close")
  /\ UNCHANGED <<disk, call, pre, gui>>

\* line 94, leaving the with block; line 97-98
DeClose(p) ==
  /\ pc[p] = "de_close"
  /\ CryptClose(p, loc[p].target)
  /\ UNCHANGED <<disk, call, events, pre, gui>>

DecryptFileStep(p) ==
  \/ DeRead(p) \/ DeCipher(p) \/ DeDecrypt(p) \/ DeOpen(p) \/ DeWrite(p) \/ DeClose(p)

StartEncryptFile ==
  /\ \E p \in Procs, path \in Paths, key \in KeyArgs : CallEncryptFile(p, path, key)
  /\ UNCHANGED gui

\* the output_path argument: left out, or a path that is not an envelope's name
OutputArgs == {NoPath} \cup {q \in Paths : q[Len(q)] # ENC}

StartDecryptFile ==
  /\ \E p \in Procs, path \in Paths, key \in KeyArgs, out \in OutputArgs :
       CallDecryptFile(p, path, key, out)
  /\ UNCHANGED gui

\* ---------------------------------------------------------------- the key as bytes and as text
\* base64.urlsafe_b64encode, the alphabet A-Z a-z 0-9 - _ in ASCII and '='
PadChar == 61

B64Char(i) ==
  IF i < 26 THEN 65 + i
  ELSE IF i < 52 THEN 97 + (i - 26)
  ELSE IF i < 62 THEN 48 + (i - 52)
  ELSE IF i = 62 THEN 45 ELSE 95

IsB64Char(c) == \E i \in 0..63 : B64Char(i) = c
B64Index(c) == CHOOSE i \in 0..63 : B64Char(i) = c

RECURSIVE B64Encode(_)
B64Encode(s) ==
  IF Len(s) = 0 THEN <<>>
  ELSE IF Len(s) = 1
    THEN <<B64Char(s[1] \div 4), B64Char((s[1] % 4) * 16), PadChar, PadChar>>
  ELSE IF Len(s) = 2
    THEN <<B64Char(s[1] \div 4), B64Char(((s[1] % 4) * 16) + (s[2] \div 16)),
           B64Char((s[2] % 16) * 4), PadChar>>
  ELSE <<B64Char(s[1] \div 4), B64Char(((s[1] % 4) * 16) + (s[2] \div 16)),
         B64Char(((s[2] % 16) * 4) + (s[3] \div 64)), B64Char(s[3] % 64)>>
       \o B64Encode(SubSeq(s, 4, Len(s)))

\* base64.urlsafe_b64decode: characters outside the alphabet are skipped, the
\* padding that completes a group ends the data, and an incomplete last group
\* is an error; the result is the groups of six bits read
RECURSIVE B64Scan(_, _, _, _)
B64Scan(t, i, vals, pads) ==
  IF i > Len(t) THEN [ok |-> Len(vals) % 4 = 0, vals |-> vals]
  ELSE IF t[i] = PadChar
    THEN IF Len(vals) % 4 >= 2 /\ ((Len(vals) % 4) + pads + 1) >= 4
           THEN [ok |-> TRUE, vals |-> vals]
           ELSE B64Scan(t, i + 1, vals, IF Len(vals) % 4 >= 2 THEN pads + 1 ELSE pads)
  ELSE IF IsB64Char(t[i]) THEN B64Scan(t, i + 1, Append(vals, B64Index(t[i])), 0)
  ELSE B64Scan(t, i + 1, vals, pads)

RECURSIVE SextetsToBytes(_)
SextetsToBytes(v) ==
  IF Len(v) < 2 THEN <<>>
  ELSE IF Len(v) = 2 THEN <<(v[1] * 4) + (v[2] \div 16)>>
  ELSE IF Len(v) = 3 THEN <<(v[1] * 4) + (v[2] \div 16), ((v[2] % 16) * 16) + (v[3] \div 4)>>
  ELSE <<(v[1] * 4) + (v[2] \div 16), ((v[2] % 16) * 16) + (v[3] \div 4), ((v[3] % 4) * 64) + v[4]>>
       \o SextetsToBytes(SubSeq(v, 5, Len(v)))

B64DecodeOk(t) == B64Scan(t, 1, <<>>, 0).ok
B64Decode(t) == SextetsToBytes(B64Scan(t, 1, <<>>, 0).vals)

\* os.urandom inside Fernet.generate_key: the secret of key k, RawKeyLen bytes
RawKeyLen == 2
RawKeyHigh == 251
RawKey(k) == <<RawKeyHigh, k>>

\* file_operations.py line 46-48: Fernet.generate_key()
GenerateKey(k) == B64Encode(RawKey(k))

\* Fernet(key), line 59 and 83: the key decoded and its length checked; BadKey
\* stands for the ValueError
FernetKeyId(key) ==
  IF B64DecodeOk(key) /\ Len(B64Decode(key)) = RawKeyLen
       /\ \E k \in Keys : RawKey(k) = B64Decode(key)
    THEN CHOOSE k \in Keys : RawKey(k) = B64Decode(key)
    ELSE BadKey

\* bytes.decode('utf-8') and str.encode('utf-8') for code points below 2048
RECURSIVE Utf8DecodeOk(_)
Utf8DecodeOk(b) ==
  \/ b = <<>>
  \/ b[1] < 128 /\ Utf8DecodeOk(Tail(b))
  \/ /\ b[1] \in 194..223 /\ Len(b) >= 2
     /\ b[2] \in 128..191 /\ Utf8DecodeOk(Tail(Tail(b)))

RECURSIVE Utf8Decode(_)
Utf8Decode(b) ==
  IF b = <<>> THEN <<>>
  ELSE IF b[1] < 128 THEN <<b[1]>> \o Utf8Decode(Tail(b))
  ELSE <<((b[1] - 192) * 64) + (b[2] - 128)>> \o Utf8Decode(Tail(Tail(b)))

RECURSIVE Utf8Encode(_)
Utf8Encode(t) ==
  IF t = <<>> THEN <<>>
  ELSE IF t[1] < 128 THEN <<t[1]>> \o Utf8Encode(Tail(t))
  ELSE <<192 + (t[1] \div 64), 128 + (t[1] % 64)>> \o Utf8Encode(Tail(t))

\* str.strip(): the white space below code point 256
Whitespace == {9, 10, 11, 12, 13, 28, 29, 30, 31, 32, 133, 160}

RECURSIVE LStrip(_)
LStrip(t) == IF t # <<>> /\ t[1] \in Whitespace THEN LStrip(Tail(t)) ELSE t

RECURSIVE RStrip(_)
RStrip(t) ==
  IF t # <<>> /\ t[Len(t)] \in Whitespace THEN RStrip(Prefix(t, Len(t) - 1)) ELSE t

\* a strip that takes the padding character for white space
Strip_PadToo(t) ==
  LET RECURSIVE Both(_)
      Both(u) == IF u # <<>> /\ u[Len(u)] \in Whitespace \cup {PadChar}
                   THEN Both(Prefix(u, Len(u) - 1)) ELSE u
  IN Both(LStrip(t))

Strip(t) == RStrip(LStrip(t))

\* ---------------------------------------------------------------- the Encrypt / Decrypt tab
\* the call a handler made and is waiting for
PendingCall(p) == pc[p] # "idle" /\ \A q \in Procs : q > p => pc[q] = "idle"

\* main_window.py line 592-609
SelectFileToEncrypt ==
  /\ gui.pending = "none" /\ ~gui.do_encrypt_btn /\ ~gui.do_decrypt_btn
  /\ \E p \in Procs : MayStart(p)
  /\ \E path \in Paths :
       /\ EncryptedPath(path) \in Paths
       /\ gui' = [gui EXCEPT !.selected_encrypt_file = path, !.do_encrypt_btn = TRUE]
       /\ log' = Append(log, LogRecord("INFO", "Selected file for encryption", path, "none"))
  /\ UNCHANGED <<data, disk, pc, call, loc, ret, outcome, failedAt, events, pre>>

\* main_window.py line 611-623: the handler up to its call of encrypt_file
EncryptSelectedFile ==
  /\ gui.pending = "none" /\ gui.do_encrypt_btn
  /\ \E p \in Procs, k \in Keys :
       /\ CallEncryptFile(p, gui.selected_encrypt_file, FernetKeyId(GenerateKey(k)))
       /\ gui' = [gui EXCEPT !.current_key = GenerateKey(k), !.pending = "encrypt"]

\* main_window.py line 625-665: the handler after encrypt_file returned
EncryptSelectedFileReturn ==
  /\ gui.pending = "encrypt"
  /\ \E p \in Procs :
       /\ PendingCall(p) /\ pc[p] = "done"
       /\ IF ret[p] # RetNone
            THEN IF Utf8DecodeOk(gui.current_key)
                   THEN /\ gui' = [gui EXCEPT !.key_display = Utf8Decode(gui.current_key),
                                              !.dialog = "Encryption Successful",
                                              !.do_encrypt_btn = FALSE,
                                              !.pending = "none"]
                        /\ UNCHANGED log
                   ELSE /\ gui' = [gui EXCEPT !.dialog = "Error", !.pending = "none"]
                        /\ log' = Append(log, LogRecord("ERROR", "Encryption error",
                                                        NoPath, "UnicodeDecodeError"))
            ELSE /\ gui' = [gui EXCEPT !.dialog = "Encryption Failed", !.pending = "none"]
                 /\ UNCHANGED log
  /\ UNCHANGED <<data, disk, pc, call, loc, ret, outcome, failedAt, events, pre>>

\* The user works on one half of the tab at a time, and fills the key field
\* once a file is chosen: with a key text, pasted with or without white space
\* around it, with a damaged key text, or with blanks.
LeftPads == {<<>>, <<32>>}
RightPads == {<<>>, <<9, 10>>}
KeyTexts == {Utf8Decode(GenerateKey(k)) : k \in Keys}
KeyInputs ==
  {l \o t \o r : l \in LeftPads, t \in KeyTexts, r \in RightPads}
    \cup {Prefix(t, Len(t) - 1) : t \in KeyTexts}
    \cup {Append(t, 233) : t \in KeyTexts}
    \cup {<<33, 33>>, <<32>>}

\* the user types or pastes into key_input, line 543-544
TypeKey ==
  /\ gui.pending = "none" /\ gui.do_decrypt_btn
  /\ gui.key_input = <<>> \/ gui.dialog = "Decryption Failed"
  /\ \E p \in Procs : MayStart(p)
  /\ \E t \in KeyInputs : gui' = [gui EXCEPT !.key_input = t]
  /\ UNCHANGED <<data, disk, pc, call, loc, ret, outcome, failedAt, events, pre, log>>

\* main_window.py line 688-709
SelectFileToDecrypt ==
  /\ gui.pending = "none" /\ ~gui.do_decrypt_btn /\ ~gui.do_encrypt_btn
  /\ \E p \in Procs : MayStart(p)
  /\ \E path \in Paths :
       /\ OutputPath(path, NoPath) \in Paths
       /\ gui' = [gui EXCEPT !.selected_decrypt_file = path, !.do_decrypt_btn = TRUE]
       /\ log' = Append(log, LogRecord("INFO", "Selected file for decryption", path, "none"))
  /\ UNCHANGED <<data, disk, pc, call, loc, ret, outcome, failedAt, events, pre>>

\* main_window.py line 711-732: the handler up to its call of decrypt_file
DecryptSelectedFile ==
  /\ gui.pending = "none" /\ gui.do_decrypt_btn
  /\ \/ /\ Strip(gui.key_input) = <<>>
        /\ gui' = [gui EXCEPT !.dialog = "No Key"]
        /\ UNCHANGED <<data, disk, pc, call, loc, ret, outcome, failedAt, events, pre, log>>
     \/ /\ Strip(gui.key_input) # <<>>
        /\ \E p \in Procs :
             CallDecryptFile(p, gui.selected_decrypt_file,
                             FernetKeyId(Utf8Encode(Strip(gui.key_input))), NoPath)
        /\ gui' = [gui EXCEPT !.key_str = Strip(gui.key_input),
                              !.key = Utf8Encode(Strip(gui.key_input)),
                              !.pending = "decrypt"]

\* main_window.py line 734-779: the handler after decrypt_file returned
DecryptSelectedFileReturn ==
  /\ gui.pending = "decrypt"
  /\ \E p \in Procs :
       /\ PendingCall(p) /\ pc[p] = "done"
       /\ gui' = IF ret[p] # RetNone
                   THEN [gui EXCEPT !.dialog = "Decryption Successful", !.key_input = <<>>,
                                    !.do_decrypt_btn = FALSE, !.pending = "none"]
                   ELSE [gui EXCEPT !.dialog = "Decryption Failed", !.pending = "none"]
  /\ UNCHANGED <<data, disk, pc, call, loc, ret, outcome, failedAt, events, pre, log>>

\* the tab opens on a folder whose file is plain, or a token of an earlier run
InitGui ==
  /\ \E c \in InitFiles \cup {FernetEncrypt(k, <<1>>, FreshIv(0), Clock(0)) : k \in Keys}
                \cup {NoFile} :
       data = [q \in Paths |-> IF q = <<"a">> THEN c ELSE NoFile]
  /\ disk = data
  /\ pc = [p \in Procs |-> "idle"]
  /\ call = [p \in Procs |-> NoCall]
  /\ loc = [p \in Procs |-> NoLoc]
  /\ ret = [p \in Procs |-> NoRet]
  /\ outcome = [p \in Procs |-> "none"]
  /\ failedAt = [p \in Procs |-> NoFail]
  /\ events = [p \in Procs |-> <<>>]
  /\ pre = [p \in Procs |-> [q \in Paths |-> NoFile]]
  /\ log = <<>>
  /\ gui = NoGui

\* ---------------------------------------------------------------- files that change under the program
\* cells are CellBits wide; bit b of the cell c is inverted
CellBits == 11

RECURSIVE Pow2(_)
Pow2(b) == IF b = 0 THEN 1 ELSE 2 * Pow2(b - 1)

FlipBit(c, b) == IF (c \div Pow2(b)) % 2 = 1 THEN c - Pow2(b) ELSE c + Pow2(b)

\* line 55-56 reads whatever the file holds: every content up to MaxSize cells
RECURSIVE SeqsUpTo(_, _)
SeqsUpTo(S, n) ==
  IF n = 0 THEN {<<>>}
  ELSE SeqsUpTo(S, n - 1) \cup {Append(s, x) : s \in {t \in SeqsUpTo(S, n - 1) : Len(t) = n - 1}, x \in S}

PlainFiles == SeqsUpTo({0, 1}, MaxSize)

\* tokens that an earlier run made (line 60) and that sit under another name
OldTokens == {FernetEncrypt(k, <<1>>, FreshIv(0), Clock(0)) : k \in Keys}

InitCrypt ==
  /\ \E c \in PlainFiles \cup OldTokens \cup {NoFile} :
       data = [q \in Paths |-> IF q = <<"a">> THEN c ELSE NoFile]
  /\ disk = data
  /\ pc = [p \in Procs |-> "idle"]
  /\ call = [p \in Procs |-> NoCall]
  /\ loc = [p \in Procs |-> NoLoc]
  /\ ret = [p \in Procs |-> NoRet]
  /\ outcome = [p \in Procs |-> "none"]
  /\ failedAt = [p \in Procs |-> NoFail]
  /\ events = [p \in Procs |-> <<>>]
  /\ pre = [p \in Procs |-> [q \in Paths |-> NoFile]]
  /\ log = <<>>
  /\ gui = NoGui

\* before a later call somebody inverts one bit of a file that encrypt_file wrote
Tamper ==
  /\ \A p \in Procs : Resting(p)
  /\ \E q \in Procs : pc[q] = "idle"
  /\ \E p \in Procs :
       /\ call[p].op = "encrypt_file" /\ pc[p] = "done" /\ ret[p] \in Paths
       /\ data[ret[p]] = loc[p].encrypted_data
       /\ \E i \in 1..Len(data[ret[p]]), b \in 0..(CellBits - 1) :
            data' = [data EXCEPT ![ret[p]][i] = FlipBit(@, b)]
  /\ UNCHANGED <<disk, pc, call, loc, ret, outcome, failedAt, events, pre, log, gui>>

\* ---------------------------------------------------------------- calls that run at the same time
\* a call starts while another may be running: no state of the module is shared
SpawnSecureDelete(p, path, passes) ==
  /\ pc[p] = "idle"
  /\ call' = [call EXCEPT ![p] = [NoCall EXCEPT !.op = "secure_delete",
                                               !.path = path, !.passes = passes]]
  /\ pre' = [pre EXCEPT ![p] = data]
  /\ Goto(p, "sd_exists")
  /\ UNCHANGED <<data, disk, loc, log, ret, outcome, failedAt, events, gui>>

\* the steps between open and close hold a handle on the file
HoldsHandle(p) == pc[p] \in {"sd_write", "sd_flush", "sd_fsync", "sd_close"}

\* The file of p's handle was unlinked by the other call, which has returned;
\* with two calls nobody can have made a new file at the path since.
Orphaned(p) == HoldsHandle(p) /\ ~Exists(data, call[p].path)

\* another call holds a handle on the file that p is about to unlink
Busy(p) ==
  \E q \in Procs \ {p} : HoldsHandle(q) /\ ~Orphaned(q) /\ call[q].path = call[p].path

\* line 26-29 on a handle whose file has no name any more: the bytes go to the
\* unnamed file, and no path changes
OrphanStep(p) ==
  /\ \/ /\ pc[p] = "sd_write"
        /\ Log(p, Ev("write", Len(loc[p].random_data), RandTag(p, loc[p].pass_num), TRUE))
        /\ Goto(p, "sd_flush")
     \/ /\ pc[p] = "sd_flush"
        /\ Log(p, Ev("flush", 0, 0, TRUE))
        /\ Goto(p, "sd_fsync")
     \/ /\ pc[p] = "sd_fsync"
        /\ Log(p, Ev("fsync", 0, 0, TRUE))
        /\ Goto(p, "sd_close")
     \/ /\ pc[p] = "sd_close"
        /\ Goto(p, "sd_loop")
        /\ UNCHANGED events
  /\ UNCHANGED <<data, disk, call, loc, log, ret, outcome, failedAt, pre, gui>>

\* the step logs no failure of the machine: what it raises, if anything, comes
\* from the arguments and from the files as they are
FaultFree ==
  Len(log') > Len(log) =>
    log'[Len(log')].exc \in {"none", "FileNotFoundError", "ValueError", "InvalidToken"}

\* os.remove of a file that another call holds open: refused where the system
\* locks open files (PermissionError), done where it does not
SharingViolation(p) ==
  /\ pc[p] = "sd_remove" /\ Busy(p)
  /\ Len(log') > Len(log) /\ log'[Len(log')].exc = "PermissionError"

\* the remover returns False although it unlinked the file
RaceStep_ReturnsFalse(p) ==
  IF Orphaned(p) THEN OrphanStep(p)
  ELSE IF pc[p] = "sd_remove" /\ Exists(data, call[p].path)
    THEN /\ data' = [data EXCEPT ![call[p].path] = NoFile]
         /\ Log(p, Ev("remove", 0, 0, TRUE))
         /\ Finish(p, RetFalse, "ok")
         /\ UNCHANGED <<disk, call, loc, pre, gui, failedAt>>
    ELSE SecureDeleteStep(p) /\ FaultFree

\* a step of secure_delete while the other call runs too
RaceStep(p) ==
  IF Orphaned(p) THEN OrphanStep(p)
  ELSE SecureDeleteStep(p) /\ (FaultFree \/ SharingViolation(p))

\* ---------------------------------------------------------------- the deletion list

\* the files the front ends are pointed at, and the folder that holds them
Listed == {<<"a">>, <<"a", ENC>>, <<"a", DEC>>}
Folder == <<"dir">>

IsFile(fs, path) == path \in Listed /\ Exists(fs, path)
IsDir(g, path) == path = Folder /\ g.folder

\* secure_delete(file_path, passes=3)
DefaultPasses == 3

\* is_already_added(path)
IsAlreadyAdded(table, path) == \E row \in 1..Len(table) : table[row] = path

\* the loop of add_files, add_directory and dropEvent over the paths found
RECURSIVE AddRows(_, _)
AddRows(table, found) ==
  IF found = <<>> THEN table
  ELSE AddRows(IF IsAlreadyAdded(table, Head(found)) THEN table
               ELSE Append(table, Head(found)),
               Tail(found))

\* table.removeRow(row)
RemoveRow(table, row) == SubSeq(table, 1, row - 1) \o SubSeq(table, row + 1, Len(table))

RECURSIVE RemoveRows(_, _)
RemoveRows(table, rows) ==
  IF rows = <<>> THEN table ELSE RemoveRows(RemoveRow(table, Head(rows)), Tail(rows))

\* sorted(set(...), reverse=True) and reversed(range(count))
Descending(S) ==
  [i \in 1..Cardinality(S) |-> CHOOSE m \in S : Cardinality({n \in S : n > m}) = i - 1]

\* os.walk(folder): the files that exist under it, in the order of the listing
Walks(fs) ==
  LET there == {path \in Listed : Exists(fs, path)}
  IN {w \in [1..Cardinality(there) -> there] :
        \A i, j \in 1..Cardinality(there) : i # j => w[i] # w[j]}

\* update_status()
RECURSIVE TotalSize(_, _)
TotalSize(table, fs) ==
  IF table = <<>> THEN 0
  ELSE (IF Exists(fs, Head(table)) THEN Len(fs[Head(table)]) ELSE 0)
         + TotalSize(Tail(table), fs)

UpdateStatus(g, fs) ==
  [g EXCEPT !.status_label = [count |-> Len(g.table), total_size |-> TotalSize(g.table, fs)]]

AtRest == gui.handler = "none" /\ \A p \in Procs : pc[p] = "idle"

\* what the user picks in a dialog or drops on the window: files that exist
Picks(fs) ==
  {<<>>} \cup {<<f>> : f \in {q \in Listed : Exists(fs, q)}}
    \cup {<<f, g>> : f \in {q \in Listed : Exists(fs, q)}, g \in {q \in Listed : Exists(fs, q)}}

\* add_files()
AddFiles ==
  /\ AtRest
  /\ \E found \in Picks(data) :
       /\ AddRows(gui.table, found) # gui.table
       /\ gui' = UpdateStatus([gui EXCEPT !.table = AddRows(gui.table, found)], data)
  /\ UNCHANGED <<data, disk, pc, call, loc, ret, outcome, failedAt, events, pre, log>>

\* add_directory()
AddDirectory ==
  /\ AtRest
  /\ \E found \in Walks(data) :
       /\ AddRows(gui.table, found) # gui.table
       /\ gui' = UpdateStatus([gui EXCEPT !.table = AddRows(gui.table, found)], data)
  /\ UNCHANGED <<data, disk, pc, call, loc, ret, outcome, failedAt, events, pre, log>>

\* dropEvent(event): the dropped files first, then the files of the dropped folders
DropEvent ==
  /\ AtRest
  /\ \E files_to_add \in Picks(data), folders \in 0..1, found \in Walks(data) :
       LET all == files_to_add \o (IF folders = 1 THEN found ELSE <<>>)
       IN /\ AddRows(gui.table, all) # gui.table
          /\ gui' = UpdateStatus([gui EXCEPT !.table = AddRows(gui.table, all)], data)
  /\ UNCHANGED <<data, disk, pc, call, loc, ret, outcome, failedAt, events, pre, log>>

\* the user selects rows of the list
SelectRows ==
  /\ AtRest
  /\ \E S \in SUBSET (1..Len(gui.table)) :
       /\ S # gui.selected
       /\ gui' = [gui EXCEPT !.selected = S]
  /\ UNCHANGED <<data, disk, pc, call, loc, ret, outcome, failedAt, events, pre, log>>

\* remove_selected()
RemoveSelected ==
  /\ AtRest
  /\ gui.selected # {}
  /\ gui' = UpdateStatus([gui EXCEPT !.table = RemoveRows(gui.table, Descending(gui.selected)),
                                     !.selected = {}], data)
  /\ UNCHANGED <<data, disk, pc, call, loc, ret, outcome, failedAt, events, pre, log>>

\* clear_all()
ClearAll ==
  /\ AtRest
  /\ gui.table # <<>>
  /\ gui' = UpdateStatus([gui EXCEPT !.table = <<>>, !.selected = {}], data)
  /\ UNCHANGED <<data, disk, pc, call, loc, ret, outcome, failedAt, events, pre, log>>

\* a front end calls secure_delete(path, passes) and waits for it
Invoke(path, passes) ==
  /\ call' = [call EXCEPT ![1] = [NoCall EXCEPT !.op = "secure_delete",
                                               !.path = path, !.passes = passes]]
  /\ pre' = [pre EXCEPT ![1] = data]
  /\ pc' = [pc EXCEPT ![1] = "sd_exists"]
  /\ loc' = [loc EXCEPT ![1] = NoLoc]
  /\ ret' = [ret EXCEPT ![1] = NoRet]
  /\ outcome' = [outcome EXCEPT ![1] = "none"]
  /\ failedAt' = [failedAt EXCEPT ![1] = NoFail]
  /\ events' = [events EXCEPT ![1] = <<>>]

\* the call has returned and its frame is gone
Release ==
  /\ pc' = [pc EXCEPT ![1] = "idle"]
  /\ call' = [call EXCEPT ![1] = NoCall]
  /\ loc' = [loc EXCEPT ![1] = NoLoc]
  /\ ret' = [ret EXCEPT ![1] = NoRet]
  /\ outcome' = [outcome EXCEPT ![1] = "none"]
  /\ failedAt' = [failedAt EXCEPT ![1] = NoFail]
  /\ events' = [events EXCEPT ![1] = <<>>]
  /\ pre' = [pre EXCEPT ![1] = [q \in Paths |-> NoFile]]

\* a delete handler from its first line to its first secure_delete(path)
DeleteRows(name, rows, none, confirm) ==
  /\ AtRest
  /\ IF rows = <<>>
       THEN /\ gui.dialog # none
            /\ gui' = [gui EXCEPT !.dialog = none]
            /\ UNCHANGED <<pc, call, loc, ret, outcome, failedAt, events, pre>>
       ELSE \E answer \in {"Yes", "No"} :
              IF answer # "Yes"
                THEN /\ gui.dialog # confirm \/ gui.answer # answer
                     /\ gui' = [gui EXCEPT !.dialog = confirm, !.answer = answer]
                     /\ UNCHANGED <<pc, call, loc, ret, outcome, failedAt, events, pre>>
                ELSE /\ gui' = [gui EXCEPT !.dialog = confirm, !.answer = answer,
                                           !.handler = name, !.rows = rows,
                                           !.count = Len(rows),
                                           !.before = gui.table,
                                           !.chosen = gui.selected,
                                           !.files_before = data, !.batch = <<>>]
                     /\ Invoke(gui.table[rows[1]], DefaultPasses)
  /\ UNCHANGED <<data, disk, log>>

\* every row of the list instead of the selected ones
DeleteSelected_All ==
  DeleteRows("delete_selected", Descending(1..Len(gui.table)), "No Selection",
             "Confirm Deletion")

\* delete_selected(), lines 971-1016
DeleteSelected ==
  DeleteRows("delete_selected", Descending(gui.selected), "No Selection", "Confirm Deletion")

\* delete_all(), lines 1033-1074
DeleteAll ==
  DeleteRows("delete_all", Descending(1..Len(gui.table)), "No Files",
             "Confirm Deletion of ALL Files")

\* secure_delete(path) has returned: removeRow(row), then the next row or,
\* after the last, update_status() and the closing message
DeleteRowsReturn ==
  /\ gui.handler \in {"delete_selected", "delete_all"}
  /\ pc[1] = "done"
  /\ LET row == Head(gui.rows)
         table == RemoveRow(gui.table, row)
         rest == Tail(gui.rows)
         g == [gui EXCEPT !.table = table, !.rows = rest,
                          !.selected = gui.selected \ {row},
                          !.batch = Append(gui.batch,
                                           [row |-> row, path |-> call[1].path,
                                            passes |-> call[1].passes, ret |-> ret[1]])]
     IN IF rest # <<>>
          THEN /\ gui' = g
               /\ Invoke(table[Head(rest)], DefaultPasses)
          ELSE /\ gui' = UpdateStatus([g EXCEPT !.handler = "none", !.selected = {},
                                                !.dialog = "Deletion Complete"], data)
               /\ Release
  /\ UNCHANGED <<data, disk, log>>

\* another program removes a listed file while the window is idle
Vanish ==
  /\ AtRest
  /\ \E row \in 1..Len(gui.table) :
       /\ Exists(data, gui.table[row])
       /\ data' = [data EXCEPT ![gui.table[row]] = NoFile]
  /\ disk' = data'
  /\ UNCHANGED <<pc, call, loc, ret, outcome, failedAt, events, pre, log, gui>>

\* the files are there, the list is empty
InitTable ==
  /\ data = [q \in Paths |-> IF q \in Listed THEN OrigData(1) ELSE NoFile]
  /\ disk = data
  /\ pc = [p \in Procs |-> "idle"]
  /\ call = [p \in Procs |-> NoCall]
  /\ loc = [p \in Procs |-> NoLoc]
  /\ ret = [p \in Procs |-> NoRet]
  /\ outcome = [p \in Procs |-> "none"]
  /\ failedAt = [p \in Procs |-> NoFail]
  /\ events = [p \in Procs |-> <<>>]
  /\ pre = [p \in Procs |-> [q \in Paths |-> NoFile]]
  /\ log = <<>>
  /\ gui = NoGui

\* ---------------------------------------------------------------- the command line

\* vaultburn [--passes N] [--recursive] files...
ArgFiles ==
  {<<f>> : f \in Listed \cup {Folder}}
    \cup {<<f, g>> : f \in Listed \cup {Folder}, g \in Listed \cup {Folder}}

Line(msg, path) == [msg |-> msg, path |-> path]

\* elif os.path.isdir(path)
MayWalk_NoFlag(g, path) == IsDir(g, path)

\* elif os.path.isdir(path) and args.recursive
MayWalk(g, path) == IsDir(g, path) /\ g.recursive

\* os.rmdir(path) removes a folder that is empty
Rmdir(g, fs) ==
  IF \A f \in Listed : ~Exists(fs, f)
    THEN [g EXCEPT !.folder = FALSE,
                   !.stdout = Append(@, Line("Successfully deleted directory", Folder))]
    ELSE [g EXCEPT !.stdout = Append(@, Line("Failed to delete directory", Folder))]

\* the main block up to the loop over args.files
CliMain ==
  /\ AtRest
  /\ gui.argi = 0
  /\ \E files \in ArgFiles, passes \in PassesArgs, recursive \in BOOLEAN :
       gui' = [gui EXCEPT !.files = files, !.passes = passes, !.recursive = recursive,
                          !.argi = 1, !.handler = "cli"]
  /\ log' = Append(log, LogRecord("INFO", "VaultBurn CLI mode started", NoPath, "none"))
  /\ UNCHANGED <<data, disk, pc, call, loc, ret, outcome, failedAt, events, pre>>

\* delete_path(path) up to its first secure_delete, or to its end where it makes none
DeletePath ==
  /\ gui.handler = "cli"
  /\ gui.argi <= Len(gui.files)
  /\ LET path == gui.files[gui.argi]
         g == [gui EXCEPT !.seen = Append(@, [isfile |-> IsFile(data, path),
                                             isdir |-> IsDir(gui, path),
                                             under |-> {f \in Listed : Exists(data, f)},
                                             fs |-> data])]
     IN IF IsFile(data, path)
          THEN /\ gui' = [g EXCEPT !.stdout = Append(@, Line("Deleting file", path)),
                                   !.handler = "cli_file"]
               /\ Invoke(path, gui.passes)
          ELSE IF MayWalk(gui, path)
            THEN \E w \in Walks(data) :
                   IF w = <<>>
                     THEN /\ gui' = Rmdir([g EXCEPT !.stdout = Append(@,
                                              Line("Deleting directory recursively", path)),
                                            !.argi = @ + 1], data)
                          /\ UNCHANGED <<pc, call, loc, ret, outcome, failedAt, events, pre>>
                     ELSE /\ gui' = [g EXCEPT !.stdout = @ \o
                                        <<Line("Deleting directory recursively", path),
                                          Line("Deleting file", w[1])>>,
                                      !.walk = w, !.handler = "cli_walk"]
                          /\ Invoke(w[1], gui.passes)
          ELSE /\ gui' = [g EXCEPT !.stdout = Append(@,
                              IF IsDir(gui, path) THEN Line("Skipping directory", path)
                              ELSE Line("does not exist", path)),
                            !.argi = @ + 1]
               /\ UNCHANGED <<pc, call, loc, ret, outcome, failedAt, events, pre>>
  /\ UNCHANGED <<data, disk, log>>

Called == [arg |-> gui.argi, path |-> call[1].path, passes |-> call[1].passes,
           ret |-> ret[1]]

\* if secure_delete(path, args.passes): ... else: ...
DeletePathFileReturn ==
  /\ gui.handler = "cli_file"
  /\ pc[1] = "done"
  /\ gui' = [gui EXCEPT !.stdout = Append(@, Line(IF ret[1] = RetTrue
                                                    THEN "Successfully deleted"
                                                    ELSE "Failed to delete", call[1].path)),
                        !.batch = Append(@, Called),
                        !.argi = @ + 1, !.handler = "cli"]
  /\ Release
  /\ UNCHANGED <<data, disk, log>>

\* secure_delete(file_path, args.passes) inside the walk: the next file, or
\* after the last os.rmdir(path)
DeletePathWalkReturn ==
  /\ gui.handler = "cli_walk"
  /\ pc[1] = "done"
  /\ LET rest == Tail(gui.walk)
         g == [gui EXCEPT !.batch = Append(@, Called), !.walk = rest]
     IN IF rest # <<>>
          THEN /\ gui' = [g EXCEPT !.stdout = Append(@, Line("Deleting file", rest[1]))]
               /\ Invoke(rest[1], gui.passes)
          ELSE /\ gui' = Rmdir([g EXCEPT !.argi = @ + 1, !.handler = "cli"], data)
               /\ Release
  /\ UNCHANGED <<data, disk, log>>

\* the loop over args.files is over
CliExit ==
  /\ gui.handler = "cli"
  /\ gui.argi > Len(gui.files)
  /\ gui' = [gui EXCEPT !.handler = "exited"]
  /\ UNCHANGED <<data, disk, pc, call, loc, ret, outcome, failedAt, events, pre, log>>

\* the folder does not let its entries be unlinked
RemoveDenied(p) ==
  /\ pc[p] = "sd_remove"
  /\ Len(log') > Len(log) /\ log'[Len(log')].exc = "PermissionError"

InitCli ==
  /\ \E d \in {OrigData(1), NoFile} :
       data = [q \in Paths |-> IF q = <<"a", DEC>> THEN d
                               ELSE IF q \in Listed THEN OrigData(1) ELSE NoFile]
  /\ disk = data
  /\ pc = [p \in Procs |-> "idle"]
  /\ call = [p \in Procs |-> NoCall]
  /\ loc = [p \in Procs |-> NoLoc]
  /\ ret = [p \in Procs |-> NoRet]
  /\ outcome = [p \in Procs |-> "none"]
  /\ failedAt = [p \in Procs |-> NoFail]
  /\ events = [p \in Procs |-> <<>>]
  /\ pre = [p \in Procs |-> [q \in Paths |-> NoFile]]
  /\ log = <<>>
  /\ gui = NoGui

\* the paths a call reads, writes or unlinks
Touches(c) ==
  CASE c.op = "secure_delete" -> {c.path}
    [] c.op = "encrypt_file" -> {c.path, EncryptedPath(c.path)}
    [] c.op = "decrypt_file" -> {c.path, OutputPath(c.path, c.output_path)}
    [] OTHER -> {}

\* a worker starts a call on files that no other call was given
SpawnApart(p, c) ==
  /\ pc[p] = "idle"
  /\ \A q \in Procs : q < p => pc[q] # "idle"
  /\ Touches(c) \subseteq Paths
  /\ \A q \in Procs \ {p} : Touches(c) \cap Touches(call[q]) = {}
  /\ call' = [call EXCEPT ![p] = c]
  /\ pre' = [pre EXCEPT ![p] = data]
  /\ Goto(p, CASE c.op = "secure_delete" -> "sd_exists"
               [] c.op = "encrypt_file" -> "en_read"
               [] OTHER -> "de_read")
  /\ UNCHANGED <<data, disk, loc, log, ret, outcome, failedAt, events, gui>>

CallsOf ==
  {[NoCall EXCEPT !.op = "secure_delete", !.path = path, !.passes = n] :
     path \in Paths, n \in PassesArgs}
    \cup {[NoCall EXCEPT !.op = "encrypt_file", !.path = path, !.key = k] :
            path \in Paths, k \in KeyArgs}
    \cup {[NoCall EXCEPT !.op = "decrypt_file", !.path = path, !.key = k, !.output_path = out] :
            path \in Paths, k \in KeyArgs, out \in OutputArgs}

\* a step of a call while calls on other files run too
ApartStep(p) ==
  /\ SecureDeleteStep(p) \/ EncryptFileStep(p) \/ DecryptFileStep(p)
  /\ FaultFree

\* two files: a plain file or a token of an earlier run, and a plain file
InitApart ==
  /\ \E c \in InitFiles \cup {FernetEncrypt(k, <<1>>, FreshIv(0), Clock(0)) : k \in Keys}
                \cup {NoFile},
        d \in {OrigData(MaxSize), NoFile} :
       data = [q \in Paths |-> IF q = <<"a">> THEN c
                               ELSE IF q = <<"a", DEC>> THEN d ELSE NoFile]
  /\ disk = data
  /\ pc = [p \in Procs |-> "idle"]
  /\ call = [p \in Procs |-> NoCall]
  /\ loc = [p \in Procs |-> NoLoc]
  /\ ret = [p \in Procs |-> NoRet]
  /\ outcome = [p \in Procs |-> "none"]
  /\ failedAt = [p \in Procs |-> NoFail]
  /\ events = [p \in Procs |-> <<>>]
  /\ pre = [p \in Procs |-> [q \in Paths |-> NoFile]]
  /\ log = <<>>
  /\ gui = NoGui

\* ---------------------------------------------------------------- specifications
\* calls of the three operations, one after the other
Next ==
  \/ StartSecureDelete
  \/ StartEncryptFile
  \/ StartDecryptFile
  \/ \E p \in Procs : SecureDeleteStep(p)
  \/ \E p \in Procs : EncryptFileStep(p)
  \/ \E p \in Procs : DecryptFileStep(p)

Spec == Init /\ [][Next]_vars

\* calls of encrypt_file and decrypt_file on files of any content
NextCrypt ==
  \/ StartEncryptFile
  \/ StartDecryptFile
  \/ \E p \in Procs : EncryptFileStep(p)
  \/ \E p \in Procs : DecryptFileStep(p)

SpecCrypt == InitCrypt /\ [][NextCrypt]_vars

\* calls of encrypt_file and decrypt_file on files that are tampered with
NextTamper ==
  \/ StartEncryptFile
  \/ StartDecryptFile
  \/ \E p \in Procs : EncryptFileStep(p)
  \/ \E p \in Procs : DecryptFileStep(p)
  \/ Tamper

SpecTamper == Init /\ [][NextTamper]_vars

\* the user at the Encrypt / Decrypt tab
NextGui ==
  \/ SelectFileToEncrypt
  \/ EncryptSelectedFile
  \/ \E p \in Procs : EncryptFileStep(p)
  \/ EncryptSelectedFileReturn
  \/ TypeKey
  \/ SelectFileToDecrypt
  \/ DecryptSelectedFile
  \/ \E p \in Procs : DecryptFileStep(p)
  \/ DecryptSelectedFileReturn

SpecGui == InitGui /\ [][NextGui]_vars

\* two calls of secure_delete that overlap in time, on a machine without faults
NextRace ==
  \/ \E p \in Procs, path \in Paths, passes \in PassesArgs : SpawnSecureDelete(p, path, passes)
  \/ \E p \in Procs : RaceStep(p)

SpecRace == Init /\ [][NextRace]_vars

\* calls on different files that overlap in time, on a machine without faults
NextApart ==
  \/ \E p \in Procs, c \in CallsOf : SpawnApart(p, c)
  \/ \E p \in Procs : ApartStep(p)

SpecApart == InitApart /\ [][NextApart]_vars

\* the Delete tab on a machine without I/O faults
NextTable ==
  \/ AddFiles
  \/ AddDirectory
  \/ DropEvent
  \/ SelectRows
  \/ RemoveSelected
  \/ ClearAll
  \/ DeleteSelected
  \/ DeleteAll
  \/ \E p \in Procs : SecureDeleteStep(p) /\ FaultFree
  \/ DeleteRowsReturn
  \/ Vanish

SpecTable == InitTable /\ [][NextTable]_vars

\* one run of the command line
NextCli ==
  \/ CliMain
  \/ DeletePath
  \/ \E p \in Procs : SecureDeleteStep(p) /\ (FaultFree \/ RemoveDenied(p))
  \/ DeletePathFileReturn
  \/ DeletePathWalkReturn
  \/ CliExit

SpecCli == InitCli /\ [][NextCli]_vars

\* calls of secure_delete only
NextDelete ==
  \/ StartSecureDelete
  \/ \E p \in Procs : SecureDeleteStep(p)

SpecDelete == Init /\ [][NextDelete]_vars

\* the operating system writes cached content of a file back to stable storage:
\* all of it, or a leading part, with or without the cut to length 0
Writeback ==
  \E path \in Paths :
    /\ disk[path] # data[path]
    /\ \/ disk' = [disk EXCEPT ![path] = data[path]]
       \/ /\ Exists(data, path)
          /\ \E j \in 0..Len(data[path]) :
               \/ disk' = [disk EXCEPT ![path] = Prefix(data[path], j)]
               \/ /\ Exists(disk, path)
                  /\ disk' = [disk EXCEPT ![path] = WriteAt0(@, Prefix(data[path], j))]
    /\ UNCHANGED <<data, pc, call, loc, log, ret, outcome, failedAt, events, pre, gui>>

\* the machine stops: every running call dies where it is, and what the
\* processes see afterwards is what stable storage holds
Crash ==
  /\ \E p \in Procs : ~Resting(p)
  /\ data' = disk
  /\ pc' = [p \in Procs |-> IF Resting(p) THEN pc[p] ELSE "crashed"]
  /\ outcome' = [p \in Procs |-> IF Resting(p) THEN outcome[p] ELSE "crashed"]
  /\ failedAt' = [p \in Procs |-> IF Resting(p) THEN failedAt[p]
                                  ELSE [step |-> pc[p], pass |-> loc[p].pass_num]]
  /\ UNCHANGED <<disk, call, loc, ret, events, pre, log, gui>>

NextCrash ==
  \/ StartSecureDelete
  \/ \E p \in Procs : SecureDeleteStep(p)
  \/ Writeback
  \/ Crash

\* calls of secure_delete on a machine that may crash
SpecCrash == Init /\ [][NextCrash]_vars

\* a call is straight-line synchronous code: once started it keeps running
SpecDeleteFair == SpecDelete /\ \A p \in Procs : WF_vars(SecureDeleteStep(p))

\* ---------------------------------------------------------------- properties
IsDelete(p) == call[p].op = "secure_delete"
IsEncrypt(p) == call[p].op = "encrypt_file"
IsDecrypt(p) == call[p].op = "decrypt_file"
Returned(p) == pc[p] = "done"
\* no call was issued after the call in slot p
Latest(p) == \A q \in Procs : q > p => pc[q] = "idle"
\* the size of the call's file when the call started
SizeAtStart(p) == Len(pre[p][call[p].path])

\* C1: whenever secure_delete (passes = N >= 1) returns True, the path is gone
\* and the call's storage operations were exactly N times (write S fresh random
\* cells, flush, fsync), S being the size at the start, then one unlink.
C1_SuccessIsNPassesThenUnlink ==
  \A p \in Procs :
    (IsDelete(p) /\ Returned(p) /\ ret[p] = RetTrue /\ call[p].passes >= 1) =>
      LET n == call[p].passes
          ev == events[p]
      IN /\ Exists(pre[p], call[p].path)
         /\ Latest(p) => ~Exists(data, call[p].path)
         /\ Len(ev) = 3 * n + 1
         /\ \A k \in 1..n :
              /\ ev[3 * k - 2].ev = "write" /\ ev[3 * k - 2].ok
              /\ ev[3 * k - 2].n = SizeAtStart(p)
              /\ IsRandom(ev[3 * k - 2].tag)
              /\ \A j \in 1..n : j # k => ev[3 * j - 2].tag # ev[3 * k - 2].tag
              /\ ev[3 * k - 1] = Ev("flush", 0, 0, TRUE)
              /\ ev[3 * k] = Ev("fsync", 0, 0, TRUE)
         /\ ev[3 * n + 1] = Ev("remove", 0, 0, TRUE)

C1_Witness ==
  \E p \in Procs :
    /\ IsDelete(p) /\ Returned(p) /\ ret[p] = RetTrue
    /\ call[p].passes = MaxPasses /\ SizeAtStart(p) = MaxSize
    /\ ~Exists(data, call[p].path)

\* C2: between the first open and the unlink the file's length is always S.
InsidePasses(p) ==
  \/ pc[p] \in {"sd_write", "sd_flush", "sd_fsync", "sd_close"}
  \/ pc[p] \in {"sd_loop", "sd_remove"} /\ loc[p].pass_num >= 1
  \/ pc[p] \in {"sd_urandom", "sd_open"} /\ loc[p].pass_num >= 2

C2_LengthNeverChanges ==
  \A p \in Procs :
    (IsDelete(p) /\ InsidePasses(p)) =>
      /\ Exists(data, call[p].path)
      /\ Len(data[call[p].path]) = loc[p].file_size

\* C3: a crash after pass k's fsync returned and before pass k+1 touches the
\* file (1 <= k < N) leaves exactly the S random cells of pass k in the file.
LastSyncedPass(p) ==
  CASE failedAt[p].step \in {"sd_close", "sd_loop"} -> failedAt[p].pass
    [] failedAt[p].step \in {"sd_urandom", "sd_open"} -> failedAt[p].pass - 1
    [] OTHER -> 0

C3_CrashBetweenPassesKeepsLastPass ==
  \A p \in Procs :
    (IsDelete(p) /\ pc[p] = "crashed" /\ Latest(p)
       /\ LastSyncedPass(p) >= 1 /\ LastSyncedPass(p) < call[p].passes) =>
      /\ Exists(data, call[p].path)
      /\ Len(data[call[p].path]) = loc[p].file_size
      /\ \A i \in 1..loc[p].file_size :
           data[call[p].path][i] = RandTag(p, LastSyncedPass(p))

C3_Witness ==
  \E p \in Procs :
    /\ IsDelete(p) /\ pc[p] = "crashed" /\ failedAt[p].step = "sd_loop"
    /\ LastSyncedPass(p) = 1 /\ call[p].passes = 2 /\ loc[p].file_size = MaxSize
    /\ data[call[p].path] = Urandom(MaxSize, p, 1)

\* C4: secure_delete on a missing path returns False through the not-found
\* branch, logs no storage operation and leaves every path as it was.
C4_MissingPathNoEffect ==
  \A p \in Procs :
    (IsDelete(p) /\ pc[p] # "idle" /\ ~Exists(pre[p], call[p].path)) =>
      /\ pc[p] \in {"sd_exists", "done"}
      /\ events[p] = <<>>
      /\ Latest(p) => data = pre[p]
      /\ Returned(p) => (ret[p] = RetFalse /\ outcome[p] = "NotFound")

C4_Witness ==
  \E p, q \in Procs :
    /\ p < q /\ IsDelete(p) /\ IsDelete(q) /\ call[p].path = call[q].path
    /\ Returned(p) /\ ret[p] = RetTrue
    /\ Returned(q) /\ ret[q] = RetFalse /\ outcome[q] = "NotFound"

\* C5: a write, flush or fsync that fails is the call's last storage operation:
\* the call returns False at once, without retry, later pass or unlink, and the
\* file entry is still there.
C5_FailedPassIsFatal ==
  \A p \in Procs :
    IsDelete(p) =>
      \A i \in 1..Len(events[p]) :
        (events[p][i].ev \in {"write", "flush", "fsync"} /\ ~events[p][i].ok) =>
          /\ i = Len(events[p])
          /\ Returned(p) /\ ret[p] = RetFalse
          /\ failedAt[p].step = events[p][i].ev
          /\ Latest(p) => Exists(data, call[p].path)

C5_Witness ==
  \E p \in Procs :
    /\ IsDelete(p) /\ Returned(p) /\ ret[p] = RetFalse
    /\ failedAt[p] = [step |-> "fsync", pass |-> 1] /\ call[p].passes = 2
    /\ Len(events[p]) = 3 /\ ~events[p][3].ok
    /\ Exists(data, call[p].path)

\* C6: True is returned only after a successful unlink, and the returned value
\* of a failing call tells the kind of failure.
FailureKind(p) ==
  CASE outcome[p] = "ok" -> "Success"
    [] outcome[p] = "NotFound" -> "NotFound"
    [] failedAt[p].step = "remove" -> "RemoveFailed"
    [] outcome[p] = "PermissionError" -> "PermissionDenied"
    [] OTHER -> "IoError"

C6_ResultTellsFailureKind ==
  /\ \A p \in Procs :
       (IsDelete(p) /\ Returned(p) /\ ret[p] = RetTrue) =>
         (events[p] # <<>> /\ events[p][Len(events[p])] = Ev("remove", 0, 0, TRUE))
  /\ \A p, q \in Procs :
       (IsDelete(p) /\ IsDelete(q) /\ Returned(p) /\ Returned(q) /\ ret[p] = ret[q]) =>
         FailureKind(p) = FailureKind(q)

\* C7: whatever the underlying steps raise, each of the three operations
\* returns a value: True or False, or a path or None; no exception escapes.
C7_NoExceptionEscapes ==
  \A p \in Procs :
    /\ pc[p] # "raised"
    /\ Returned(p) =>
         /\ IsDelete(p) => ret[p] \in {RetTrue, RetFalse}
         /\ (IsEncrypt(p) \/ IsDecrypt(p)) => (ret[p] = RetNone \/ ret[p] \in Paths)

C7_Witness ==
  \E p, q \in Procs :
    /\ IsDelete(p) /\ Returned(p) /\ failedAt[p].step = "urandom" /\ ret[p] = RetFalse
    /\ IsDecrypt(q) /\ Returned(q) /\ failedAt[q].step = "decrypt" /\ ret[q] = RetNone

\* C8: once the pass loop is entered the call always returns, and it returns
\* either because a step failed or after all N passes and the unlink attempt.
InLoop(p) == IsDelete(p) /\ ~Resting(p) /\ pc[p] \notin {"sd_exists", "sd_getsize"}

C8_RunsToCompletionOrFails ==
  /\ \A p \in Procs : InLoop(p) ~> Returned(p)
  /\ [](\A p \in Procs :
          (IsDelete(p) /\ Returned(p) /\ outcome[p] # "NotFound"
             /\ failedAt[p].step # "getsize") =>
            \/ failedAt[p].step # "none"
            \/ /\ loc[p].pass_num = call[p].passes
               /\ Len(events[p]) = 3 * call[p].passes + 1
               /\ events[p][Len(events[p])].ev = "remove")

C8_Witness ==
  \E p, q \in Procs :
    /\ IsDelete(p) /\ Returned(p) /\ failedAt[p].step = "flush" /\ failedAt[p].pass = 2
    /\ IsDelete(q) /\ Returned(q) /\ failedAt[q].step = "none" /\ call[q].passes = MaxPasses
    /\ loc[q].pass_num = MaxPasses

\* C9: on a zero-byte file, when no step fails, secure_delete with N passes
\* issues N times (write of 0 cells, flush, fsync), unlinks and returns True.
C9_EmptyFileStillPassesAndUnlinks ==
  \A p \in Procs :
    (IsDelete(p) /\ Returned(p) /\ Exists(pre[p], call[p].path)
       /\ SizeAtStart(p) = 0 /\ failedAt[p].step = "none") =>
      /\ ret[p] = RetTrue
      /\ Latest(p) => ~Exists(data, call[p].path)
      /\ Len(events[p]) = 3 * call[p].passes + 1
      /\ \A k \in 1..call[p].passes :
           /\ events[p][3 * k - 2].ev = "write" /\ events[p][3 * k - 2].n = 0
           /\ events[p][3 * k - 2].ok
           /\ events[p][3 * k - 1] = Ev("flush", 0, 0, TRUE)
           /\ events[p][3 * k] = Ev("fsync", 0, 0, TRUE)
      /\ events[p][Len(events[p])] = Ev("remove", 0, 0, TRUE)

C9_Witness ==
  \E p \in Procs :
    /\ IsDelete(p) /\ Returned(p) /\ pre[p][call[p].path] = <<>>
    /\ call[p].passes = MaxPasses /\ ret[p] = RetTrue
    /\ Len(events[p]) = 3 * MaxPasses + 1

\* C10: whatever the outcome of encrypt_file, its source is as it was before
\* the call.
C10_EncryptLeavesSource ==
  \A p \in Procs :
    (IsEncrypt(p) /\ pc[p] # "idle" /\ Latest(p)) =>
      data[call[p].path] = pre[p][call[p].path]

C10_Witness ==
  \E p, q \in Procs :
    /\ IsEncrypt(p) /\ Returned(p) /\ ret[p] = EncryptedPath(call[p].path)
    /\ IsEncrypt(q) /\ Returned(q) /\ failedAt[q].step = "write" /\ Latest(q)
    /\ Exists(data, call[q].path) /\ Len(data[call[q].path]) > 0

\* C11: at no point of encrypt_file, and after no failed call, does the path
\* source + '.encrypted' hold an envelope that is not complete: the file there
\* is as it was before the call, or it is the whole envelope.
C11_NoPartialEnvelope ==
  \A p \in Procs :
    (IsEncrypt(p) /\ pc[p] # "idle" /\ Latest(p)) =>
      \/ data[EncryptedPath(call[p].path)] = pre[p][EncryptedPath(call[p].path)]
      \/ /\ loc[p].encrypted_data # <<>>
         /\ data[EncryptedPath(call[p].path)] = loc[p].encrypted_data

\* C12: when the file read does not authenticate under the key, decrypt_file
\* returns None and no path, the destination included, is opened or changed.
Unauthentic(p) ==
  /\ IsDecrypt(p) /\ pc[p] # "idle"
  /\ Exists(pre[p], call[p].path)
  /\ call[p].key \in Keys
  /\ ~FernetValid(call[p].key, pre[p][call[p].path])

C12_DecryptFailsClosed ==
  \A p \in Procs :
    Unauthentic(p) =>
      /\ pc[p] \in {"de_read", "de_cipher", "de_decrypt", "done"}
      /\ events[p] = <<>>
      /\ Latest(p) => data = pre[p]
      /\ Returned(p) => ret[p] = RetNone

C12_Witness ==
  \E p, q \in Procs :
    /\ IsEncrypt(p) /\ Returned(p) /\ ret[p] = EncryptedPath(<<"a">>)
    /\ Unauthentic(q) /\ Returned(q) /\ failedAt[q].step = "decrypt"
    /\ call[q].path = ret[p] /\ call[q].key # call[p].key /\ call[q].output_path = NoPath
    /\ Exists(data, <<"a">>) /\ data[<<"a">>] = OrigData(MaxSize)

\* C13: for every key and every plaintext, the empty one included, the token
\* that Fernet.encrypt made decrypts under the same key to that plaintext; and
\* decrypt_file(path + '.encrypted', k) without output_path after
\* encrypt_file(path, k) returns path and leaves the source's content at path.
\* the exception that ended the latest call, from the record its handler logged
RaisedIn(q) == log[Len(log)].exc

DecryptsEnvelopeOf(p, q) ==
  /\ IsEncrypt(p) /\ Returned(p) /\ ret[p] \in Paths
  /\ IsDecrypt(q) /\ pc[q] # "idle"
  /\ call[q].path = ret[p]
  /\ pre[q][ret[p]] = loc[p].encrypted_data

C13_RoundTrip ==
  /\ \A p \in Procs :
       (IsEncrypt(p) /\ loc[p].encrypted_data # <<>>) =>
         /\ FernetValid(call[p].key, loc[p].encrypted_data)
         /\ FernetDecrypt(call[p].key, loc[p].encrypted_data) = loc[p].file_data
         /\ loc[p].file_data = pre[p][call[p].path]
  /\ \A p, q \in Procs :
       (DecryptsEnvelopeOf(p, q) /\ call[q].key = call[p].key
          /\ call[q].output_path = NoPath /\ Returned(q)) =>
         \/ /\ ret[q] = call[p].path
            /\ Latest(q) => data[call[p].path] = pre[p][call[p].path]
         \/ /\ ret[q] = RetNone
            /\ Latest(q) => RaisedIn(q) \notin {"ValueError", "InvalidToken"}

C13_Witness ==
  \E p, q \in Procs :
    /\ DecryptsEnvelopeOf(p, q) /\ call[q].key = call[p].key
    /\ call[q].output_path = NoPath /\ Returned(q)
    /\ ret[q] = <<"a">> /\ data[<<"a">>] = <<>> /\ pre[p][<<"a">>] = <<>>

\* C14: decrypt_file under a key other than the one encrypt_file used refuses
\* the envelope: Fernet.decrypt raises InvalidToken, None is returned, and no
\* plaintext is produced, returned or written.
Refused(q) ==
  /\ pc[q] \in {"de_read", "de_cipher", "de_decrypt", "done"}
  /\ loc[q].decrypted_data = <<>>
  /\ events[q] = <<>>
  /\ Latest(q) => data = pre[q]
  /\ Returned(q) =>
       /\ ret[q] = RetNone
       /\ failedAt[q].step \in {"read", "cipher", "decrypt"}
       /\ failedAt[q].step = "decrypt" =>
            (Latest(q) => RaisedIn(q) = "InvalidToken")

C14_WrongKeyRejected ==
  \A p, q \in Procs :
    (DecryptsEnvelopeOf(p, q) /\ call[q].key \in Keys /\ call[q].key # call[p].key) =>
      Refused(q)

C14_Witness ==
  \E p, q \in Procs :
    /\ DecryptsEnvelopeOf(p, q) /\ call[q].key \in Keys /\ call[q].key # call[p].key
    /\ Returned(q) /\ failedAt[q].step = "decrypt" /\ ret[q] = RetNone
    /\ Len(loc[p].file_data) = MaxSize
    /\ log[Len(log)].exc = "InvalidToken"

\* C15: an envelope with one bit of its IV or of its ciphertext inverted is
\* refused by decrypt_file under every key, the key that made it included.
OneBitOff(E, T) ==
  /\ Len(T) = Len(E)
  /\ \E i \in HeaderLen..(Len(E) - 1), b \in 0..(CellBits - 1) :
       T = [E EXCEPT ![i] = FlipBit(E[i], b)]

DecryptsTampered(p, q) ==
  /\ IsEncrypt(p) /\ Returned(p) /\ ret[p] \in Paths
  /\ IsDecrypt(q) /\ pc[q] # "idle"
  /\ Exists(pre[q], call[q].path)
  /\ OneBitOff(loc[p].encrypted_data, pre[q][call[q].path])

C15_TamperDetected ==
  \A p, q \in Procs :
    (DecryptsTampered(p, q) /\ call[q].key \in Keys) => Refused(q)

C15_Witness ==
  \E p, q \in Procs :
    /\ DecryptsTampered(p, q) /\ call[q].key = call[p].key
    /\ Returned(q) /\ failedAt[q].step = "decrypt" /\ ret[q] = RetNone
    /\ Len(loc[p].file_data) = MaxSize
    /\ pre[q][call[q].path][HeaderLen] = loc[p].encrypted_data[HeaderLen]

\* C16: when encrypt_file returns a path it is the source path with
\* '.encrypted' appended and the file there is the whole token of the source's
\* bytes under the key; a call that fails returns None, not a path.
C16_EncryptReturnsEnvelopePath ==
  \A p \in Procs :
    (IsEncrypt(p) /\ Returned(p)) =>
      /\ ret[p] # RetNone =>
           /\ outcome[p] = "ok"
           /\ ret[p] = Append(call[p].path, ENC)
           /\ Latest(p) =>
                /\ data[ret[p]] = FernetEncrypt(call[p].key, pre[p][call[p].path],
                                                FreshIv(p), Clock(p))
                /\ FernetValid(call[p].key, data[ret[p]])
                /\ FernetDecrypt(call[p].key, data[ret[p]]) = pre[p][call[p].path]
      /\ outcome[p] # "ok" => ret[p] = RetNone

C16_Witness ==
  \E p, q \in Procs :
    /\ IsEncrypt(p) /\ Returned(p) /\ ret[p] = RetNone /\ failedAt[p].step = "write"
    /\ IsEncrypt(q) /\ Returned(q) /\ ret[q] = <<"a", ENC>>
    /\ Len(pre[q][<<"a">>]) = MaxSize
    /\ Len(data[<<"a", ENC>>]) = HeaderLen + MaxSize + PadLen(MaxSize) + 1

\* C17: decrypt_file writes to output_path when it is given; when it is not,
\* to the input path without its trailing '.encrypted', or, when the input
\* path does not end so, to the input path plus '.decrypted'. The path it
\* returns is the path it wrote, and no other path is touched.
Destination(q) ==
  IF call[q].output_path # NoPath THEN call[q].output_path
  ELSE IF Len(call[q].path) >= 2 /\ call[q].path[Len(call[q].path)] = ENC
       THEN [i \in 1..(Len(call[q].path) - 1) |-> call[q].path[i]]
       ELSE call[q].path \o <<DEC>>

C17_DecryptDestination ==
  \A q \in Procs :
    IsDecrypt(q) =>
      /\ pc[q] \in {"de_write", "de_close"} => loc[q].target = Destination(q)
      /\ Latest(q) /\ pc[q] # "idle" =>
           \A r \in Paths : r # Destination(q) => data[r] = pre[q][r]
      /\ (Returned(q) /\ ret[q] # RetNone) =>
           /\ ret[q] = Destination(q)
           /\ events[q] # <<>>
           /\ Latest(q) => data[ret[q]] = loc[q].decrypted_data

C17_Witness ==
  \E p, q \in Procs :
    /\ IsDecrypt(p) /\ Returned(p) /\ call[p].path = <<"a">> /\ call[p].output_path = NoPath
    /\ ret[p] = <<"a", DEC>>
    /\ IsDecrypt(q) /\ Returned(q) /\ call[q].path = <<"a">> /\ call[q].output_path = <<"a">>
    /\ ret[q] = <<"a">> /\ data[<<"a">>] = <<1>> /\ data[<<"a", DEC>>] = <<1>>

\* C18: a key that generate_key made, shown in key_display as text and read
\* back from key_input, white space around it stripped, is the same key: the
\* same bytes, which Fernet takes for the same secret.
PaddedCopies(t) == {l \o t \o r : l \in LeftPads, r \in RightPads}

C18_KeyTextRoundTrip ==
  /\ \A k \in Keys : FernetKeyId(GenerateKey(k)) = k
  /\ \A p \in Procs :
       (IsEncrypt(p) /\ Returned(p) /\ ret[p] # RetNone /\ Latest(p)
          /\ gui.pending = "none") =>
         /\ gui.current_key = GenerateKey(call[p].key)
         /\ \A x \in PaddedCopies(gui.key_display) :
              /\ Utf8Encode(Strip(x)) = gui.current_key
              /\ FernetKeyId(Utf8Encode(Strip(x))) = call[p].key
  /\ \A p, q \in Procs :
       (IsEncrypt(p) /\ Returned(p) /\ ret[p] # RetNone
          /\ IsDecrypt(q) /\ pc[q] # "idle" /\ gui.pending = "decrypt"
          /\ gui.key_input \in PaddedCopies(gui.key_display)) =>
         /\ gui.key = GenerateKey(call[p].key)
         /\ call[q].key = call[p].key

C18_Witness ==
  \E p, q \in Procs :
    /\ IsEncrypt(p) /\ Returned(p) /\ ret[p] = <<"a", ENC>>
    /\ IsDecrypt(q) /\ Returned(q) /\ ret[q] = <<"a">> /\ gui.pending = "decrypt"
    /\ gui.key_input = <<32>> \o gui.key_display \o <<9, 10>>
    /\ Len(gui.key_display) = 4 * ((RawKeyLen + 2) \div 3)

\* C19: a key text that cannot be decoded, or decodes to the wrong length,
\* makes decryption fail with a result that is told apart from the result of
\* every other failure; and nothing is written.
C19_BadKeyTextIsTold ==
  /\ \A p \in Procs :
       (IsDecrypt(p) /\ pc[p] # "idle" /\ call[p].key = BadKey) =>
         /\ events[p] = <<>>
         /\ Latest(p) => data = pre[p]
         /\ Returned(p) => failedAt[p].step \in {"read", "cipher"}
  /\ \A p, q \in Procs :
       (IsDecrypt(p) /\ IsDecrypt(q) /\ Returned(p) /\ Returned(q) /\ ret[p] = ret[q]) =>
         (failedAt[p].step = "cipher" <=> failedAt[q].step = "cipher")

\* C20: no record of the log and no file holds the bytes of a key, raw or in
\* their text form, whatever was generated, encrypted or decrypted.
Contains(s, sub) ==
  \E i \in 0..(Len(s) - Len(sub)) : SubSeq(s, i + 1, i + Len(sub)) = sub

KeyForms == {RawKey(k) : k \in Keys} \cup {GenerateKey(k) : k \in Keys}

C20_KeyNeverPersisted ==
  \A form \in KeyForms :
    /\ \A i \in 1..Len(log) : ~Contains(log[i].detail, form)
    /\ \A path \in Paths : ~Contains(data[path], form) /\ ~Contains(disk[path], form)

C20_Witness ==
  \E p, q \in Procs :
    /\ IsEncrypt(p) /\ Returned(p) /\ ret[p] = <<"a", ENC>>
    /\ IsDecrypt(q) /\ Returned(q) /\ ret[q] = RetNone /\ failedAt[q].step = "decrypt"
    /\ gui.key \in KeyForms /\ gui.current_key \in KeyForms /\ gui.key # gui.current_key
    /\ Len(log) >= 4 /\ log[Len(log)].exc = "InvalidToken"
    /\ Exists(data, <<"a", ENC>>)

\* C25: the envelope of a 0-byte file is as long as the nonce plus the tag and
\* holds nothing else, and decrypting it gives a 0-byte file.
C25_EmptyFileEnvelopeIsNonceAndTag ==
  \A p \in Procs :
    (IsEncrypt(p) /\ Returned(p) /\ ret[p] # RetNone /\ loc[p].file_data = <<>>) =>
      /\ Len(loc[p].encrypted_data) = IvLen + MacLen
      /\ FernetDecrypt(call[p].key, loc[p].encrypted_data) = <<>>

\* C27: whenever secure_delete unlinks a file, a pass before the unlink wrote
\* the whole file and synced it, whatever pass count was given.
C27_UnlinkOnlyAfterOverwrite ==
  \A p \in Procs :
    IsDelete(p) =>
      \A i \in 1..Len(events[p]) :
        (events[p][i].ev = "remove" /\ events[p][i].ok) =>
          \E j \in 1..(i - 1) :
            /\ events[p][j].ev = "write" /\ events[p][j].ok
            /\ events[p][j].n = SizeAtStart(p)

\* C30: when decrypt_file returns None the destination is as it was before
\* the call: not created, not cut, not partly overwritten.
C30_FailedDecryptLeavesDestination ==
  \A q \in Procs :
    (IsDecrypt(q) /\ Returned(q) /\ ret[q] = RetNone /\ Latest(q)) =>
      data[Destination(q)] = pre[q][Destination(q)]

\* C29: two secure_delete calls that both started on the same existing path
\* leave no file there once both have returned, however their steps
\* interleave, and at least one of them returns True.
RaceOn(p, q) ==
  /\ p # q /\ IsDelete(p) /\ IsDelete(q) /\ call[p].path = call[q].path
  /\ Exists(pre[p], call[p].path) /\ Exists(pre[q], call[q].path)

C29_RacingDeletesRemoveTheFile ==
  \A p, q \in Procs :
    (RaceOn(p, q) /\ Returned(p) /\ Returned(q)) =>
      /\ ~Exists(data, call[p].path)
      /\ ret[p] = RetTrue \/ ret[q] = RetTrue

C29_Witness ==
  \E p, q \in Procs :
    /\ RaceOn(p, q) /\ Returned(p) /\ Returned(q)
    /\ ret[p] = RetTrue /\ ret[q] = RetFalse /\ failedAt[q].step = "remove"
    /\ call[p].passes = MaxPasses /\ call[q].passes = MaxPasses
    /\ Len(events[q]) = 3 * MaxPasses + 1

\* C24: a call that runs while a call on other files runs returns what it
\* returns alone and leaves its files as it leaves them alone: both are fixed
\* by the call's arguments and by its own files as they were when it started.
AloneOk(p) ==
  CASE IsDelete(p) -> Exists(pre[p], call[p].path)
    [] IsEncrypt(p) -> Exists(pre[p], call[p].path) /\ call[p].key \in Keys
    [] IsDecrypt(p) -> /\ Exists(pre[p], call[p].path) /\ call[p].key \in Keys
                       /\ FernetValid(call[p].key, pre[p][call[p].path])
    [] OTHER -> FALSE

AloneRet(p) ==
  CASE IsDelete(p) -> IF AloneOk(p) THEN RetTrue ELSE RetFalse
    [] IsEncrypt(p) -> IF AloneOk(p) THEN Append(call[p].path, ENC) ELSE RetNone
    [] OTHER -> IF AloneOk(p) THEN Destination(p) ELSE RetNone

AloneFile(p, r) ==
  CASE ~AloneOk(p) -> pre[p][r]
    [] IsDelete(p) -> NoFile
    [] IsEncrypt(p) ->
         IF r = call[p].path THEN pre[p][r]
         ELSE FernetEncrypt(call[p].key, pre[p][call[p].path], FreshIv(p), Clock(p))
    [] OTHER ->
         IF r = Destination(p) THEN FernetDecrypt(call[p].key, pre[p][call[p].path])
         ELSE pre[p][r]

Own(p) ==
  CASE IsDelete(p) -> {call[p].path}
    [] IsEncrypt(p) -> {call[p].path, Append(call[p].path, ENC)}
    [] IsDecrypt(p) -> {call[p].path, Destination(p)}
    [] OTHER -> {}

C24_DisjointCallsDoNotInterfere ==
  \A p \in Procs :
    /\ \A q \in Procs \ {p} : Own(p) \cap Own(q) = {}
    /\ Returned(p) =>
         /\ ret[p] = AloneRet(p)
         /\ \A r \in Own(p) : data[r] = AloneFile(p, r)

C24_Witness ==
  \E p, q \in Procs :
    /\ p < q /\ IsDelete(p) /\ Returned(p) /\ ret[p] = RetTrue
    /\ call[p].passes = MaxPasses
    /\ IsEncrypt(q) /\ Returned(q) /\ ret[q] = <<"a", ENC>>
    /\ Exists(pre[q], call[p].path)
    /\ Exists(data, <<"a", ENC>>) /\ ~Exists(data, <<"a", DEC>>)

\* C21: whenever a front end has a secure_delete call under way, the user
\* said yes to that batch beforehand, and after a no nothing is under way.
C21_ConfirmedBeforeErase ==
  /\ \A p \in Procs :
       (pc[p] # "idle" /\ gui.handler # "none") => gui.answer = "Yes"
  /\ gui.answer = "No" => gui.handler = "none" /\ \A p \in Procs : pc[p] = "idle"

\* C22: no two rows of the list hold the same path, and no batch calls
\* secure_delete twice on the same path.
C22_NoPathTwice ==
  /\ \A i, j \in 1..Len(gui.table) : i # j => gui.table[i] # gui.table[j]
  /\ \A i, j \in 1..Len(gui.batch) : i # j => gui.batch[i].path # gui.batch[j].path
  /\ \A i \in 1..Len(gui.batch) :
       (gui.handler # "none" /\ pc[1] # "idle") => gui.batch[i].path # call[1].path

\* C23: the command line passes a regular file to secure_delete once, with
\* the requested passes; it walks a folder only under --recursive and then
\* passes every file under it, each once; otherwise it skips the folder with
\* a message, makes no call for it and leaves every file as it was.
CallsFor(i) == {k \in 1..Len(gui.batch) : gui.batch[k].arg = i}

FilesAfter(i) == IF i < Len(gui.seen) THEN gui.seen[i + 1].fs ELSE data

C23_CliDispatch ==
  /\ \A p \in Procs : pc[p] # "idle" => call[p].passes = gui.passes
  /\ \A i \in 1..Len(gui.seen) :
       LET s == gui.seen[i]
           mine == CallsFor(i)
           finished == i < gui.argi
       IN /\ \A k \in mine : gui.batch[k].passes = gui.passes
          /\ \A k, l \in mine : k # l => gui.batch[k].path # gui.batch[l].path
          /\ s.isfile =>
               /\ \A k \in mine : gui.batch[k].path = gui.files[i]
               /\ finished => Cardinality(mine) = 1
          /\ (~s.isfile /\ s.isdir /\ gui.recursive) =>
               /\ \A k \in mine : gui.batch[k].path \in s.under
               /\ finished => {gui.batch[k].path : k \in mine} = s.under
          /\ (~s.isfile /\ ~(s.isdir /\ gui.recursive)) =>
               /\ mine = {}
               /\ finished
               /\ FilesAfter(i) = s.fs
               /\ s.isdir => \E n \in 1..Len(gui.stdout) :
                               gui.stdout[n] = Line("Skipping directory", gui.files[i])

C23_Witness ==
  /\ gui.handler = "exited"
  /\ gui.recursive /\ gui.passes = MaxPasses
  /\ gui.files = << <<"a">>, Folder >>
  /\ Len(gui.batch) = 3
  /\ \A k \in 1..3 : gui.batch[k].ret = RetTrue
  /\ ~gui.folder

\* C26: a file is counted in the closing message, and its row is taken off
\* the list, only if secure_delete returned True for it.
Counted(i) == gui.dialog = "Deletion Complete" /\ gui.handler = "none" /\ i <= gui.count

RowGone(i) == ~IsAlreadyAdded(gui.table, gui.batch[i].path)

C26_ReportedOnlyIfErased ==
  gui.handler \in {"none", "delete_selected", "delete_all"} =>
    \A i \in 1..Len(gui.batch) :
      (Counted(i) \/ RowGone(i)) => gui.batch[i].ret = RetTrue

\* C28: through every step of a confirmed 'delete selected', the calls made
\* so far are the selected rows' paths from the highest row down, each once,
\* the call under way is on the next of them, the list is the earlier list
\* without the rows done, and the files of the unselected rows are as they were.
ExactlyTheSelection ==
  LET want == Descending(gui.chosen)
      n == Len(gui.batch)
  IN /\ n <= Len(want)
     /\ \A i \in 1..n : /\ gui.batch[i].row = want[i]
                        /\ gui.batch[i].path = gui.before[want[i]]
     /\ IF pc[1] # "idle"
          THEN n < Len(want) /\ call[1].path = gui.before[want[n + 1]]
          ELSE n = Len(want)
     /\ gui.table = RemoveRows(gui.before, SubSeq(want, 1, n))
     /\ \A r \in (1..Len(gui.before)) \ gui.chosen :
          /\ IsAlreadyAdded(gui.table, gui.before[r])
          /\ data[gui.before[r]] = gui.files_before[gui.before[r]]

C28_DeleteSelectedIsExact ==
  [][(gui.handler = "delete_selected" \/ gui'.handler = "delete_selected")
       => ExactlyTheSelection']_vars

C28_Witness ==
  /\ gui.handler = "none" /\ gui.dialog = "Deletion Complete"
  /\ Len(gui.before) = 3 /\ gui.chosen = {1, 2}
  /\ Len(gui.batch) = 2
  /\ gui.table = <<gui.before[3]>>
  /\ Exists(data, gui.before[3])
  /\ ~Exists(data, gui.before[1]) /\ ~Exists(data, gui.before[2])
====
